---- MODULE Spec2Model ----
(***************************************************************************)
(* Model of the llm-aggregator model catalog engine.                       *)
(*                                                                         *)
(* The state is the ModelStore of services/model_store.py: the ordered     *)
(* dict _models, the dict _enriched, the FIFO _queue with its membership   *)
(* set _queued_keys, and _last_update_ts.  Every public coroutine of the   *)
(* store is one action: none of them yields to the event loop between its  *)
(* first and last statement (the lock is free when it is taken and the     *)
(* queue is unbounded, so put() never waits).                              *)
(*                                                                         *)
(* Two history variables record what the properties talk about and are     *)
(* never read by the store operations: `last` (a digest of the most recent *)
(* call: its name, what it removed or skipped, what it returned) and       *)
(* `handouts`                                                              *)
(* (per key, how often get_enrichment_batch handed it out since the key    *)
(* entered the store or was last requeued).                                *)
(***************************************************************************)
EXTENDS Integers, Sequences, FiniteSets, TLC

(***************************************************************************)
(* Bounds of the model.                                                    *)
(***************************************************************************)
MaxQueue == 2      \* the queue is not allowed to grow beyond this length
MaxArgs == 2       \* longest list passed to an operation
MaxBatch == 2      \* largest max_batch_size passed to get_enrichment_batch
MaxTime == 1       \* time.time() returns a value in 1..MaxTime
MaxHandouts == 2   \* the handout counter saturates here
MaxCatalog == 3    \* most models in a catalog that get_snapshot is applied to
MaxLoops == 4      \* most loop tasks the task manager creates in a run
MaxEntries == 2    \* most entries in a provider's /models payload
MaxItems == 2      \* most entries in a response of the brain
MaxSize == 12      \* largest size the script of the size gatherer prints
MaxLookups == 2    \* most documentation lookups under way at a time
MaxClock == 4      \* the clock of the documentation cache stops here

(***************************************************************************)
(* Values: providers, keys, provider payloads, enrichment payloads.        *)
(***************************************************************************)
ProviderA == [base_url |-> "https://provider-a.example/v1",
              internal_base_url |-> "http://provider-a:9000/v1"]
ProviderB == [base_url |-> "https://provider-b.example/v1",
              internal_base_url |-> "http://provider-b:9000/v1"]

\* ModelKey(provider, id)
ModelKey(p, i) == [provider |-> p, id |-> i]

KeyAlpha == ModelKey(ProviderA, "alpha")
KeyGamma == ModelKey(ProviderB, "Gamma")
Keys == {KeyAlpha, KeyGamma}

(***************************************************************************)
(* JSON values.  A dict is a function from field names to values; a value  *)
(* is a string Str(s) or a nested dict Obj(d), so that a dict can be told  *)
(* from a string.                                                          *)
(***************************************************************************)
Str(s) == [str |-> s]
Obj(d) == [obj |-> d]
Num(n) == [num |-> n]
List(l) == [list |-> l]
Null == [null |-> TRUE]
IsStr(v) == "str" \in DOMAIN v
IsObj(v) == "obj" \in DOMAIN v
IsNum(v) == "num" \in DOMAIN v
IsList(v) == "list" \in DOMAIN v
IsNull(v) == "null" \in DOMAIN v

\* d[k] = v
Put(d, k, v) == [f \in (DOMAIN d) \cup {k} |-> IF f = k THEN v ELSE d[f]]

\* d.setdefault(k, v)
SetDefault(d, k, v) == IF k \in DOMAIN d THEN d ELSE Put(d, k, v)

\* d.pop(k, None)
Pop(d, k) == [f \in (DOMAIN d) \ {k} |-> d[f]]

\* d.update(e)
Update(d, e) ==
    [f \in (DOMAIN d) \cup (DOMAIN e) |-> IF f \in DOMAIN e THEN e[f] ELSE d[f]]

\* ModelInfo(key, raw): the upstream /models entry of alpha comes in two
\* versions; the second one carries a field named internal_base_url
ModelInfo == {[key |-> KeyAlpha,
               raw |-> [id |-> Str("alpha"), owned_by |-> Str("first")]],
              [key |-> KeyAlpha,
               raw |-> [id |-> Str("alpha"), owned_by |-> Str("updated"),
                        internal_base_url |-> Str("http://upstream:1/v1")]],
              [key |-> KeyGamma,
               raw |-> [id |-> Str("Gamma"), object |-> Str("second")]]}

(***************************************************************************)
(* _map_enrich_result: what becomes of the list the brain answered.        *)
(***************************************************************************)
\* ProviderConfig.from_api_dict: <<provider>>, or <<>> for None
ProviderFromApiDict(raw) ==
    IF /\ "base_url" \in DOMAIN raw
       /\ "internal_base_url" \in DOMAIN raw
       /\ IsStr(raw.base_url)
       /\ IsStr(raw.internal_base_url)
    THEN <<[base_url |-> raw.base_url.str,
            internal_base_url |-> raw.internal_base_url.str]>>
    ELSE <<>>

\* ModelKey.from_api_dict: <<key>>, or <<>> for None
ModelKeyFromApiDict(raw) ==
    LET provider_config == ProviderFromApiDict(raw)
    IN  IF provider_config # <<>> /\ "id" \in DOMAIN raw /\ IsStr(raw.id)
        THEN <<ModelKey(provider_config[1], raw.id.str)>>
        ELSE <<>>

\* one iteration of the loop over enriched_list: the results so far, with
\* the EnrichedModel(key, enriched) of the item when it is a dict that names
\* one of the input models
MapEnrichItem(input_keys, result, item) ==
    IF ~IsObj(item) THEN result
    ELSE LET model_key == ModelKeyFromApiDict(item.obj)
         IN  IF model_key = <<>> THEN result
             ELSE IF model_key[1] \notin input_keys THEN result
             ELSE Append(result,
                         [key |-> model_key[1],
                          enriched |-> Pop(item.obj, "internal_base_url")])

RECURSIVE MapEnrichFrom(_, _, _)
MapEnrichFrom(input_keys, result, enriched_list) ==
    IF enriched_list = <<>> THEN result
    ELSE MapEnrichFrom(input_keys,
                       MapEnrichItem(input_keys, result, Head(enriched_list)),
                       Tail(enriched_list))

MapEnrichResult(input_keys, enriched_list) ==
    MapEnrichFrom(input_keys, <<>>, enriched_list)

\* the brain's answer for a model: the model's public form (id, base_url,
\* internal_base_url) with the fields the brain added.  The answer for alpha
\* comes in two versions; the second one repeats the provider's addresses in
\* a nested object.
BrainItem(k, extra) ==
    Obj(Update([id |-> Str(k.id),
                base_url |-> Str(k.provider.base_url),
                internal_base_url |-> Str(k.provider.internal_base_url)],
               extra))

BrainItems ==
    {BrainItem(KeyAlpha, [summary |-> Str("old")]),
     BrainItem(KeyAlpha,
               [summary |-> Str("new"),
                provider |-> Obj([base_url |-> Str(ProviderA.base_url),
                                  internal_base_url |->
                                      Str(ProviderA.internal_base_url)])]),
     BrainItem(KeyGamma, [summary |-> Str("gamma summary")])}

\* EnrichedModel(key, enriched): what _map_enrich_result makes of the
\* brain's answers
EnrichedModel ==
    {MapEnrichResult(Keys, <<item>>)[1] : item \in BrainItems}

\* all lists over S of length at most n
ListsOf(S, n) == UNION {[1..l -> S] : l \in 0..n}

ModelLists == ListsOf(ModelInfo, MaxArgs)
EnrichedLists == ListsOf(EnrichedModel, MaxArgs)
BatchSizes == (0 - 1)..MaxBatch
Times == 1..MaxTime

VARIABLES
    models,          \* ModelStore._models, in dict order
    enriched,        \* ModelStore._enriched
    queue,           \* ModelStore._queue
    queued_keys,     \* ModelStore._queued_keys
    last_update_ts,  \* ModelStore._last_update_ts
    last,            \* history: the digest of the most recent call
    handouts,        \* history: handouts per key
    lock,            \* ModelStore._lock is held
    lock_waiters,    \* the calls suspended in `async with self._lock`
    upd,             \* the update_models call suspended at an await, if any
    tasks,           \* the loop tasks ever created, by task id
    refresh_task,    \* BackgroundTasksManager._refresh_task (0 for None)
    enrich_task,     \* BackgroundTasksManager._enrich_task (0 for None)
    stopping,        \* BackgroundTasksManager._stopping is set
    stop_waits,      \* the tasks a stop() under way awaits (<<>>: no stop)
    stopped,         \* history: stop() has returned and start() not run since
    cache_entries,   \* WebsiteInfoCache._entries
    clock,           \* time.time()
    lookups          \* the calls of _get_markdown_for_source under way

\* the store and its history
storevars ==
    <<models, enriched, queue, queued_keys, last_update_ts, last, handouts>>

\* the lock and the call that holds it across an await
lockvars == <<lock, lock_waiters, upd>>

\* the task manager and its loops
taskvars ==
    <<tasks, refresh_task, enrich_task, stopping, stop_waits, stopped>>

\* the documentation cache, the clock it reads and the lookups under way
cachevars == <<cache_entries, clock, lookups>>

vars == <<storevars, lockvars, taskvars, cachevars>>

\* the lookups that can be under way at a time
LookupIds == 1..MaxLookups

\* no entry, no lookup under way
CacheInit ==
    /\ cache_entries = <<>>
    /\ clock = 0
    /\ lookups = [p \in LookupIds |-> <<>>]

(***************************************************************************)
(* Dict and list helpers.                                                  *)
(***************************************************************************)
\* the keys carried by a list of models or enrichment results
KeysOf(list) == {list[i].key : i \in 1..Len(list)}

\* number of elements of a list that carry key k
CountKey(list, k) == Cardinality({i \in 1..Len(list) : list[i].key = k})

\* d[m.key] = m on an insertion-ordered dict: an existing key keeps its
\* position, a new key goes to the end
DictSet(d, m) ==
    IF m.key \in KeysOf(d)
    THEN [i \in 1..Len(d) |-> IF d[i].key = m.key THEN m ELSE d[i]]
    ELSE Append(d, m)

\* d[k] for a key the dict holds
DictGet(d, k) == d[CHOOSE i \in 1..Len(d) : d[i].key = k]

\* new_by_key = {m.key: m for m in new_models}
RECURSIVE NewByKeyFrom(_, _)
NewByKeyFrom(d, new_models) ==
    IF new_models = <<>> THEN d
    ELSE NewByKeyFrom(DictSet(d, Head(new_models)), Tail(new_models))

\* variant: of several models with one key the first is kept
RECURSIVE NewByKeyFirstWins(_)
NewByKeyFirstWins(new_models) ==
    IF new_models = <<>> THEN <<>>
    ELSE LET front == NewByKeyFirstWins(
                        SubSeq(new_models, 1, Len(new_models) - 1))
             m == new_models[Len(new_models)]
         IN  IF m.key \in KeysOf(front) THEN front ELSE Append(front, m)

NewByKey(new_models) == NewByKeyFrom(<<>>, new_models)

(***************************************************************************)
(* ModelStore._enqueue_no_duplicate                                        *)
(***************************************************************************)
\* variant: the membership test is missing
EnqueueAlways(q, qk, m) ==
    [queue |-> Append(q, m), queued_keys |-> qk \cup {m.key}]

EnqueueNoDuplicate(q, qk, m) ==
    IF m.key \in qk
    THEN [queue |-> q, queued_keys |-> qk]
    ELSE [queue |-> Append(q, m), queued_keys |-> qk \cup {m.key}]

(***************************************************************************)
(* ModelStore.update_models                                                *)
(***************************************************************************)
\* variant: a vanished key stays in queued_keys
DropVanishedKeepQueued(st, removed) ==
    [models |-> SelectSeq(st.models, LAMBDA m : m.key \notin removed),
     enriched |-> [k \in (DOMAIN st.enriched) \ removed |-> st.enriched[k]],
     queue |-> st.queue,
     queued_keys |-> st.queued_keys]

\* "Drop models that vanished": the loop over removed_keys
DropVanished(st, removed) ==
    [models |-> SelectSeq(st.models, LAMBDA m : m.key \notin removed),
     enriched |-> [k \in (DOMAIN st.enriched) \ removed |-> st.enriched[k]],
     queue |-> st.queue,
     queued_keys |-> st.queued_keys \ removed]

\* variant: a key that is already stored is enqueued again unless queued
AddOrUpdateReenqueue(st, m) ==
    LET e == EnqueueNoDuplicate(st.queue, st.queued_keys, m)
    IN  [st EXCEPT !.models = DictSet(@, m),
                   !.queue = e.queue,
                   !.queued_keys = e.queued_keys]

\* variant: every incoming model is put on the queue
AddOrUpdateEnqueueEvery(st, m) ==
    LET e == EnqueueAlways(st.queue, st.queued_keys, m)
    IN  [st EXCEPT !.models = DictSet(@, m),
                   !.queue = e.queue,
                   !.queued_keys = e.queued_keys]

\* "Add or update models": one iteration of the loop over new_by_key
AddOrUpdate(st, m) ==
    IF m.key \in KeysOf(st.models)
    THEN [st EXCEPT !.models = DictSet(@, m)]
    ELSE LET e == EnqueueNoDuplicate(st.queue, st.queued_keys, m)
         IN  [st EXCEPT !.models = DictSet(@, m),
                        !.queue = e.queue,
                        !.queued_keys = e.queued_keys]

RECURSIVE AddOrUpdateAll(_, _)
AddOrUpdateAll(st, items) ==
    IF items = <<>> THEN st
    ELSE AddOrUpdateAll(AddOrUpdate(st, Head(items)), Tail(items))

\* the store after update_models(new_models), last_update_ts aside
UpdateModelsResult(st, new_models) ==
    LET new_by_key == NewByKey(new_models)
        removed_keys == KeysOf(st.models) \ KeysOf(new_by_key)
    IN  AddOrUpdateAll(DropVanished(st, removed_keys), new_by_key)

Current == [models |-> models, enriched |-> enriched,
            queue |-> queue, queued_keys |-> queued_keys]

(***************************************************************************)
(* The digest of a call kept in `last`:                                    *)
(*   op        the operation                                               *)
(*   arg       update_models: its argument                                 *)
(*   skipped   apply_enrichment, requeue_models: the argument carried a    *)
(*             key the store does not hold                                 *)
(*   removed   update_models: the keys it removed from the store           *)
(*   replaced  update_models: the stored keys whose model it changed       *)
(*   repeat    update_models: the previous call was update_models with the *)
(*             same argument                                               *)
(*   enq       how many elements the call appended to the queue            *)
(*   ret       get_enrichment_batch: the returned batch; get_snapshot: the *)
(*             returned entries                                            *)
(*   handed    clear: the keys it dropped whose model was out in a batch   *)
(*             (handed out and not requeued since)                         *)
(*   waited    get_snapshot: the call had to wait for the lock             *)
(*   raised    the call ended in an exception                              *)
(*   calls     the calls the operation made to its collaborators           *)
(***************************************************************************)
NoCall == [op |-> "init", arg |-> <<>>, skipped |-> FALSE, removed |-> {},
           replaced |-> {}, repeat |-> FALSE, enq |-> 0, ret |-> <<>>,
           handed |-> {}, waited |-> FALSE, raised |-> FALSE,
           calls |-> <<>>]

\* the handout counter after c more handouts; it saturates at MaxHandouts
HandedOut(n, c) == IF n + c < MaxHandouts THEN n + c ELSE MaxHandouts

UpdateModels(new_models) ==
    LET st == UpdateModelsResult(Current, new_models)
    IN  /\ Len(st.queue) <= MaxQueue
        /\ models' = st.models
        /\ enriched' = st.enriched
        /\ queue' = st.queue
        /\ queued_keys' = st.queued_keys
        /\ \E t \in Times : last_update_ts' = t
        /\ last' = [NoCall EXCEPT
                !.op = "update_models",
                !.arg = new_models,
                !.removed = KeysOf(models) \ KeysOf(st.models),
                !.replaced = {k \in KeysOf(models) \cap KeysOf(st.models) :
                                DictGet(models, k) # DictGet(st.models, k)},
                !.repeat = (last.op = "update_models" /\ last.arg = new_models),
                !.enq = Len(st.queue) - Len(queue)]
        /\ handouts' = [k \in Keys |->
                IF k \in KeysOf(models) \cap KeysOf(st.models)
                THEN handouts[k] ELSE 0]

(***************************************************************************)
(* ModelStore.get_snapshot                                                 *)
(***************************************************************************)
\* the code points of the strings that become sort keys
CodePoints(s) ==
    CASE
        s = "" ->
            <<>>
     []
        s = "alpha" ->
            <<97, 108, 112, 104, 97>>
     []
        s = "Beta" ->
            <<66, 101, 116, 97>>
     []
        s = "beta" ->
            <<98, 101, 116, 97>>
     []
        s = "Gamma" ->
            <<71, 97, 109, 109, 97>>
     []
        s = "5" ->
            <<53>>
     []
        s = "node-a" ->
            <<110, 111, 100, 101, 45, 97>>
     []
        s = "node-b" ->
            <<110, 111, 100, 101, 45, 98>>
     []
        s = "https://provider-a.example/v1" ->
            <<104, 116, 116, 112, 115, 58, 47, 47, 112, 114, 111, 118, 105,
            100, 101, 114, 45, 97, 46, 101, 120, 97, 109, 112,
            108, 101, 47, 118, 49>>
     []
        s = "https://provider-b.example/v1" ->
            <<104, 116, 116, 112, 115, 58, 47, 47, 112, 114, 111, 118, 105,
            100, 101, 114, 45, 98, 46, 101, 120, 97, 109, 112,
            108, 101, 47, 118, 49>>

\* str.lower() on code points
LowerCase(cps) ==
    [i \in DOMAIN cps |-> IF cps[i] \in 65..90 THEN cps[i] + 32 ELSE cps[i]]

\* a < b for two strings, given by their code points
RECURSIVE StrLess(_, _)
StrLess(a, b) ==
    IF b = <<>> THEN FALSE
    ELSE IF a = <<>> THEN TRUE
    ELSE IF Head(a) # Head(b) THEN Head(a) < Head(b)
    ELSE StrLess(Tail(a), Tail(b))

\* variant: the metadata carries the address that is dialled
BuildSnapshotEntryInternalUrl(model, enriched_opt) ==
    LET provider_payload ==
            SetDefault(Put(model.raw, "id", Str(model.key.id)),
                       "object", Str("model"))
        base_meta == [base_url |-> Str(model.key.provider.internal_base_url)]
        aggregator_meta ==
            IF enriched_opt # <<>> /\ DOMAIN enriched_opt[1].enriched # {}
            THEN Pop(Pop(Update(base_meta, enriched_opt[1].enriched), "id"),
                     "internal_base_url")
            ELSE base_meta
    IN  Put(provider_payload, "llm_aggregator", Obj(aggregator_meta))

\* _build_snapshot_entry(model, enriched); enriched_opt is <<>> for None
BuildSnapshotEntry(model, enriched_opt) ==
    LET provider_payload ==
            SetDefault(Put(model.raw, "id", Str(model.key.id)),
                       "object", Str("model"))
        base_meta == [base_url |-> Str(model.key.provider.base_url)]
        aggregator_meta ==
            IF enriched_opt # <<>> /\ DOMAIN enriched_opt[1].enriched # {}
            THEN Pop(Pop(Update(base_meta, enriched_opt[1].enriched), "id"),
                     "internal_base_url")
            ELSE base_meta
    IN  Put(provider_payload, "llm_aggregator", Obj(aggregator_meta))

\* variant: the id is compared as it is spelled
SortKeyCaseSensitive(item) ==
    LET meta == item.llm_aggregator.obj
    IN  <<CodePoints(meta.base_url.str), CodePoints(item.id.str)>>

\* the key entries.sort() compares:
\* (str(meta.get("base_url") or ""), str(item.get("id", "")).lower())
SortKey(item) ==
    LET meta == item.llm_aggregator.obj
    IN  <<IF "base_url" \in DOMAIN meta /\ IsStr(meta.base_url)
          THEN CodePoints(meta.base_url.str) ELSE CodePoints(""),
          LowerCase(CodePoints(item.id.str))>>

\* a < b for two sort keys
KeyLess(a, b) ==
    \/ StrLess(a[1], b[1])
    \/ a[1] = b[1] /\ StrLess(a[2], b[2])

\* list.sort(key=...) is stable: an entry goes behind the entries whose key
\* is not greater than its own
RECURSIVE SortedInsert(_, _)
SortedInsert(sorted, item) ==
    IF sorted = <<>> THEN <<item>>
    ELSE IF KeyLess(SortKey(item), SortKey(sorted[Len(sorted)]))
         THEN Append(SortedInsert(SubSeq(sorted, 1, Len(sorted) - 1), item),
                     sorted[Len(sorted)])
         ELSE Append(sorted, item)

RECURSIVE SortEntries(_, _)
SortEntries(sorted, entries) ==
    IF entries = <<>> THEN sorted
    ELSE SortEntries(SortedInsert(sorted, Head(entries)), Tail(entries))

\* the entries in dict order, before entries.sort()
SnapshotEntries(ms, en) ==
    [i \in 1..Len(ms) |->
        BuildSnapshotEntry(ms[i],
            IF ms[i].key \in DOMAIN en THEN <<en[ms[i].key]>> ELSE <<>>)]

\* what get_snapshot returns for the models ms and the enrichment en
Snapshot(ms, en) == SortEntries(<<>>, SnapshotEntries(ms, en))

GetSnapshot ==
    /\ last' = [NoCall EXCEPT
            !.op = "get_snapshot",
            !.ret = Snapshot(models, enriched)]
    /\ UNCHANGED <<models, enriched, queue, queued_keys, last_update_ts,
                   handouts>>

(***************************************************************************)
(* ModelStore.get_enrichment_batch                                         *)
(***************************************************************************)
\* variant: the popped key stays in queued_keys
PopOneKeepQueued(b) ==
    [batch |-> Append(b.batch, Head(b.queue)),
     queue |-> Tail(b.queue),
     queued_keys |-> b.queued_keys]

\* the state of the loop after its body ran for the queue's head
PopOne(b) ==
    [batch |-> Append(b.batch, Head(b.queue)),
     queue |-> Tail(b.queue),
     queued_keys |-> b.queued_keys \ {Head(b.queue).key}]

\* for _ in range(n): get_nowait(), break on QueueEmpty
RECURSIVE PopLoop(_, _)
PopLoop(b, n) ==
    IF n <= 0 \/ b.queue = <<>> THEN b
    ELSE PopLoop(PopOne(b), n - 1)

EnrichmentBatch(q, qk, max_batch_size) ==
    IF max_batch_size <= 0
    THEN [batch |-> <<>>, queue |-> q, queued_keys |-> qk]
    ELSE PopLoop([batch |-> <<>>, queue |-> q, queued_keys |-> qk],
                 max_batch_size)

GetEnrichmentBatch(max_batch_size) ==
    LET b == EnrichmentBatch(queue, queued_keys, max_batch_size)
    IN  /\ queue' = b.queue
        /\ queued_keys' = b.queued_keys
        /\ last' = [NoCall EXCEPT
                !.op = "get_enrichment_batch",
                !.ret = b.batch]
        /\ handouts' = [k \in Keys |->
                IF k \in KeysOf(models)
                THEN HandedOut(handouts[k], CountKey(b.batch, k))
                ELSE handouts[k]]
        /\ UNCHANGED <<models, enriched, last_update_ts>>

(***************************************************************************)
(* ModelStore.apply_enrichment                                             *)
(***************************************************************************)
\* variant: the result is stored whether or not the key is in models
ApplyOneUnchecked(st, em) ==
    [st EXCEPT !.enriched =
        [k \in (DOMAIN @) \cup {em.key} |-> IF k = em.key THEN em ELSE @[k]]]

ApplyOne(st, em) ==
    IF em.key \in KeysOf(st.models)
    THEN [st EXCEPT !.enriched =
            [k \in (DOMAIN @) \cup {em.key} |->
                IF k = em.key THEN em ELSE @[k]]]
    ELSE st

RECURSIVE ApplyAll(_, _)
ApplyAll(st, enriched_models) ==
    IF enriched_models = <<>> THEN st
    ELSE ApplyAll(ApplyOne(st, Head(enriched_models)), Tail(enriched_models))

ApplyEnrichment(enriched_models) ==
    LET st == ApplyAll(Current, enriched_models)
    IN  /\ enriched' = st.enriched
        /\ last' = [NoCall EXCEPT
                !.op = "apply_enrichment",
                !.skipped = (KeysOf(enriched_models) \ KeysOf(models) # {})]
        /\ UNCHANGED <<models, queue, queued_keys, last_update_ts, handouts>>

(***************************************************************************)
(* ModelStore.requeue_models                                               *)
(***************************************************************************)
\* variant: a model is requeued whether or not its key is in models
RequeueOneUnknownToo(st, m) ==
    LET e == EnqueueNoDuplicate(st.queue, st.queued_keys, m)
    IN  [st EXCEPT !.queue = e.queue, !.queued_keys = e.queued_keys]

RequeueOne(st, m) ==
    IF m.key \in KeysOf(st.models)
    THEN LET e == EnqueueNoDuplicate(st.queue, st.queued_keys, m)
         IN  [st EXCEPT !.queue = e.queue, !.queued_keys = e.queued_keys]
    ELSE st

RECURSIVE RequeueAll(_, _)
RequeueAll(st, ms) ==
    IF ms = <<>> THEN st
    ELSE RequeueAll(RequeueOne(st, Head(ms)), Tail(ms))

RequeueModels(ms) ==
    LET st == RequeueAll(Current, ms)
    IN  /\ Len(st.queue) <= MaxQueue
        /\ queue' = st.queue
        /\ queued_keys' = st.queued_keys
        /\ last' = [NoCall EXCEPT
                !.op = "requeue_models",
                !.skipped = (KeysOf(ms) \ KeysOf(models) # {}),
                !.enq = Len(st.queue) - Len(queue)]
        /\ handouts' = [k \in Keys |->
                IF k \in KeysOf(ms) \cap KeysOf(models)
                THEN 0 ELSE handouts[k]]
        /\ UNCHANGED <<models, enriched, last_update_ts>>

(***************************************************************************)
(* ModelStore.clear                                                        *)
(***************************************************************************)
\* variant: the queue is not drained
ClearKeepsQueue ==
    /\ models' = <<>>
    /\ enriched' = <<>>
    /\ UNCHANGED <<queue, queued_keys>>
    /\ last_update_ts' = 0
    /\ last' = [NoCall EXCEPT
            !.op = "clear",
            !.handed = {k \in KeysOf(models) : handouts[k] >= 1}]
    /\ handouts' = [k \in Keys |-> 0]

Clear ==
    /\ models' = <<>>
    /\ enriched' = <<>>
    /\ queued_keys' = {}
    /\ queue' = <<>>
    /\ last_update_ts' = 0
    /\ last' = [NoCall EXCEPT
            !.op = "clear",
            !.handed = {k \in KeysOf(models) : handouts[k] >= 1}]
    /\ handouts' = [k \in Keys |-> 0]

(***************************************************************************)
(* ModelStore.__init__ and the specification.                              *)
(***************************************************************************)
Init ==
    /\ models = <<>>
    /\ enriched = <<>>
    /\ queue = <<>>
    /\ queued_keys = {}
    /\ last_update_ts = 0
    /\ last = NoCall
    /\ handouts = [k \in Keys |-> 0]
    /\ lock = FALSE
    /\ lock_waiters = {}
    /\ upd = <<>>
    /\ tasks = <<>>
    /\ refresh_task = 0
    /\ enrich_task = 0
    /\ stopping = FALSE
    /\ stop_waits = <<>>
    /\ stopped = FALSE
    /\ CacheInit

\* The calls of the store's public API, each running from its first to its
\* last statement: the lock is free when the call takes it and free again
\* when the call returns.
Next ==
    \/ \E new_models \in ModelLists :
            UpdateModels(new_models) /\ UNCHANGED <<lockvars, taskvars, cachevars>>
    \/ \E max_batch_size \in BatchSizes :
            /\ GetEnrichmentBatch(max_batch_size)
            /\ UNCHANGED <<lockvars, taskvars, cachevars>>
    \/ \E enriched_models \in EnrichedLists :
            /\ ApplyEnrichment(enriched_models)
            /\ UNCHANGED <<lockvars, taskvars, cachevars>>
    \/ \E ms \in ModelLists :
            RequeueModels(ms) /\ UNCHANGED <<lockvars, taskvars, cachevars>>
    \/ GetSnapshot /\ UNCHANGED <<lockvars, taskvars, cachevars>>
    \/ Clear /\ UNCHANGED <<lockvars, taskvars, cachevars>>

Spec == Init /\ [][Next]_vars

TypeOK ==
    /\ models \in Seq(ModelInfo)
    /\ DOMAIN enriched \subseteq Keys
    /\ queue \in Seq(ModelInfo)
    /\ queued_keys \subseteq Keys
    /\ last_update_ts \in 0..MaxTime
    /\ handouts \in [Keys -> 0..MaxHandouts]

(***************************************************************************)
(* The store's calls across their awaits.  Here every `await` of a call is *)
(* a point where the event loop may run another task: update_models holds  *)
(* the lock while it awaits _enqueue_no_duplicate for a new key, and a     *)
(* get_snapshot called meanwhile waits in `async with self._lock`.         *)
(***************************************************************************)
\* variant: the lock is not looked at
AcquireUnlocked == TRUE

\* `async with self._lock` goes on without waiting
Acquire == ~lock /\ lock_waiters = {}

\* "Add or update models" up to the next await: st is the store the loop
\* has made, cur the new model it has stored and not yet enqueued (<<>> when
\* the loop is through), rest the items still to come
RECURSIVE RunToAwait(_, _)
RunToAwait(st, items) ==
    IF items = <<>> THEN [st |-> st, cur |-> <<>>, rest |-> <<>>]
    ELSE IF Head(items).key \in KeysOf(st.models)
         THEN RunToAwait([st EXCEPT !.models = DictSet(@, Head(items))],
                         Tail(items))
         ELSE [st |-> [st EXCEPT !.models = DictSet(@, Head(items))],
               cur |-> <<Head(items)>>,
               rest |-> Tail(items)]

\* update_models from `async with self._lock` to its first await
UpdateBegin(new_models) ==
    LET new_by_key == NewByKey(new_models)
        removed_keys == KeysOf(models) \ KeysOf(new_by_key)
        r == RunToAwait(DropVanished(Current, removed_keys), new_by_key)
        whole == UpdateModelsResult(Current, new_models)
    IN  /\ Acquire
        /\ r.cur # <<>>
        /\ Len(whole.queue) <= MaxQueue
        /\ models' = r.st.models
        /\ enriched' = r.st.enriched
        /\ queued_keys' = r.st.queued_keys
        /\ lock' = TRUE
        /\ upd' = <<[arg |-> new_models,
                     cur |-> r.cur[1],
                     rest |-> r.rest,
                     before |-> Snapshot(models, enriched),
                     after |-> Snapshot(whole.models, whole.enriched)]>>
        /\ last' = [NoCall EXCEPT !.op = "update_models", !.arg = new_models]
        /\ handouts' = [k \in Keys |->
                IF k \in KeysOf(models) \cap KeysOf(whole.models)
                THEN handouts[k] ELSE 0]
        /\ UNCHANGED <<queue, last_update_ts, lock_waiters, taskvars,
                       cachevars>>

\* update_models from one await to the next, or to its end
UpdateResume ==
    /\ upd # <<>>
    /\ LET e == EnqueueNoDuplicate(queue, queued_keys, upd[1].cur)
           r == RunToAwait([models |-> models, enriched |-> enriched,
                            queue |-> e.queue, queued_keys |-> e.queued_keys],
                           upd[1].rest)
       IN  /\ models' = r.st.models
           /\ queue' = e.queue
           /\ queued_keys' = e.queued_keys
           /\ IF r.cur = <<>>
              THEN /\ \E t \in Times : last_update_ts' = t
                   /\ lock' = FALSE
                   /\ upd' = <<>>
              ELSE /\ last_update_ts' = last_update_ts
                   /\ lock' = TRUE
                   /\ upd' = <<[upd[1] EXCEPT !.cur = r.cur[1],
                                              !.rest = r.rest]>>
    /\ last' = [NoCall EXCEPT !.op = "update_models", !.arg = upd[1].arg]
    /\ UNCHANGED <<enriched, handouts, lock_waiters, taskvars, cachevars>>

\* update_models that meets no await: no key of the argument is new
UpdateAtOnce(new_models) ==
    /\ Acquire
    /\ KeysOf(new_models) \subseteq KeysOf(models)
    /\ UpdateModels(new_models)
    /\ UNCHANGED <<lockvars, taskvars, cachevars>>

\* get_snapshot is called: it runs, or waits for the lock
SnapshotCall ==
    \/ /\ Acquire
       /\ GetSnapshot
       /\ UNCHANGED <<lockvars, taskvars, cachevars>>
    \/ /\ lock
       /\ "get_snapshot" \notin lock_waiters
       /\ lock_waiters' = lock_waiters \cup {"get_snapshot"}
       /\ last' = [NoCall EXCEPT !.op = "get_snapshot (waits)"]
       /\ UNCHANGED <<models, enriched, queue, queued_keys, last_update_ts,
                      handouts, lock, upd, taskvars, cachevars>>

\* the lock is released to the waiting get_snapshot, which runs
SnapshotWake ==
    /\ ~lock
    /\ "get_snapshot" \in lock_waiters
    /\ lock_waiters' = lock_waiters \ {"get_snapshot"}
    /\ last' = [NoCall EXCEPT
            !.op = "get_snapshot",
            !.ret = Snapshot(models, enriched),
            !.waited = TRUE]
    /\ UNCHANGED <<models, enriched, queue, queued_keys, last_update_ts,
                   handouts, lock, upd, taskvars, cachevars>>

NextAwait ==
    \/ \E new_models \in ModelLists : UpdateBegin(new_models)
    \/ UpdateResume
    \/ \E new_models \in ModelLists : UpdateAtOnce(new_models)
    \/ SnapshotCall
    \/ SnapshotWake
    \/ \E enriched_models \in EnrichedLists :
            /\ Acquire
            /\ ApplyEnrichment(enriched_models)
            /\ UNCHANGED <<lockvars, taskvars, cachevars>>
    \/ \E max_batch_size \in BatchSizes :
            /\ GetEnrichmentBatch(max_batch_size)
            /\ UNCHANGED <<lockvars, taskvars, cachevars>>

SpecAwait == Init /\ [][NextAwait]_vars

(***************************************************************************)
(* get_snapshot as a function of the catalog: the store holds any list of  *)
(* models with distinct keys (the order update_models stored them in) and  *)
(* any enrichment of them, over a set of models in which two ids of one    *)
(* provider differ in case alone and a third sorts differently with and    *)
(* without case.                                                           *)
(***************************************************************************)
KeyBeta == ModelKey(ProviderA, "Beta")
KeyBetaLower == ModelKey(ProviderA, "beta")
CatalogKeys == Keys \cup {KeyBeta, KeyBetaLower}

CatalogModels ==
    ModelInfo \cup {[key |-> KeyBeta, raw |-> [id |-> Str("Beta")]],
                    [key |-> KeyBetaLower, raw |-> [id |-> Str("beta")]]}

CatalogEnriched ==
    EnrichedModel \cup
        {MapEnrichResult(CatalogKeys,
            <<BrainItem(KeyBeta, [summary |-> Str("beta summary")])>>)[1]}

\* the values _models can take: lists of models with distinct keys
CatalogLists ==
    {l \in ListsOf(CatalogModels, MaxCatalog) :
        \A i, j \in 1..Len(l) : l[i].key = l[j].key => i = j}

\* the values _enriched can take beside the models ms: one result for some
\* of their keys
CatalogEnrichments(ms) ==
    {[k \in {em.key : em \in E} |-> CHOOSE em \in E : em.key = k] :
        E \in {E \in SUBSET CatalogEnriched :
                /\ \A em \in E : em.key \in KeysOf(ms)
                /\ \A e1, e2 \in E : e1.key = e2.key => e1 = e2}}

InitCatalog ==
    /\ models \in CatalogLists
    /\ enriched \in CatalogEnrichments(models)
    /\ queue = <<>>
    /\ queued_keys = {}
    /\ last_update_ts = 1
    /\ last = NoCall
    /\ handouts = [k \in Keys |-> 0]
    /\ lock = FALSE
    /\ lock_waiters = {}
    /\ upd = <<>>
    /\ tasks = <<>>
    /\ refresh_task = 0
    /\ enrich_task = 0
    /\ stopping = FALSE
    /\ stop_waits = <<>>
    /\ stopped = FALSE
    /\ CacheInit

NextCatalog == GetSnapshot /\ UNCHANGED <<lockvars, taskvars, cachevars>>

SpecCatalog == InitCatalog /\ [][NextCatalog]_vars

\* update_models and requeue_models alone: no get_enrichment_batch, no clear
NextEnqueue ==
    \/ \E new_models \in ModelLists :
            UpdateModels(new_models) /\ UNCHANGED <<lockvars, taskvars, cachevars>>
    \/ \E ms \in ModelLists :
            RequeueModels(ms) /\ UNCHANGED <<lockvars, taskvars, cachevars>>

SpecEnqueue == Init /\ [][NextEnqueue]_vars

(***************************************************************************)
(* BackgroundTasksManager: start, restart, stop and the two loops.         *)
(*                                                                         *)
(* A loop is an asyncio task.  Its record holds                            *)
(*   kind    "refresh" or "enrich"                                         *)
(*   pc      the await it is suspended at, "ready" (the enrichment loop is *)
(*           back at its loop head and still running), or "done"           *)
(*   cancel  Task.cancel() was called and the CancelledError is not yet    *)
(*           delivered                                                     *)
(*   batch   enrichment loop: the batch it holds during the enricher call  *)
(* A task runs from one await to the next without a task switch; the store *)
(* calls do not suspend here, because nothing holds the lock across a      *)
(* switch.  A sleeping task may wake at any time.                          *)
(***************************************************************************)
\* settings.brain.max_batch_size
BrainMaxBatch == MaxBatch

\* what gather_models may return: nothing (no provider answers), or the
\* listing of both providers, in provider order
GatherResults ==
    {ms \in ModelLists :
        /\ \A i \in 1..Len(ms) : "internal_base_url" \notin DOMAIN ms[i].raw
        /\ Len(ms) > 0 => ms[1].key = KeyAlpha /\ ms[Len(ms)].key = KeyGamma}

\* what the brain may answer with: an item for any of the models, each once
BrainAnswers ==
    {answer \in ListsOf({item \in BrainItems :
                            "provider" \notin DOMAIN item.obj}, MaxArgs) :
        \A i, j \in 1..Len(answer) : i < j => answer[i] # answer[j]}

NewRefreshTask ==
    [kind |-> "refresh", pc |-> "delay", cancel |-> FALSE, batch |-> <<>>]

NewEnrichTask ==
    [kind |-> "enrich", pc |-> "new", cancel |-> FALSE, batch |-> <<>>]

TaskIds == DOMAIN tasks

\* no task is in the middle of a run: every task is suspended or done
EventLoopFree == \A t \in TaskIds : tasks[t].pc # "ready"

\* every requested cancellation has reached its task.  The event loop runs
\* its callbacks in order, so a cancelled task takes its CancelledError
\* before a task created later has its first run.
CancelsDelivered == \A t \in TaskIds : ~tasks[t].cancel

\* task t is the next to take its CancelledError: cancellations are delivered
\* in the order of the cancel() calls, which is the order of creation
NextCancelled(t) ==
    /\ tasks[t].cancel
    /\ \A u \in TaskIds : u < t => ~tasks[u].cancel

\* a step that calls no store operation
NoStoreCall(op) ==
    /\ last' = [NoCall EXCEPT !.op = op]
    /\ UNCHANGED <<models, enriched, queue, queued_keys, last_update_ts,
                   handouts>>

\* Task.cancel() on each of the tasks ids: no effect on a finished task
CancelTasks(ts, ids) ==
    [t \in DOMAIN ts |->
        IF t \in ids /\ ts[t].pc # "done"
        THEN [ts[t] EXCEPT !.cancel = TRUE]
        ELSE ts[t]]

\* start() past its guard: the two loops are created
CreateLoops(ts) ==
    /\ Len(ts) + 2 <= MaxLoops
    /\ tasks' = ts \o <<NewRefreshTask, NewEnrichTask>>
    /\ refresh_task' = Len(ts) + 1
    /\ enrich_task' = Len(ts) + 2
    /\ stopped' = FALSE
    /\ UNCHANGED <<stopping, stop_waits>>

\* variant: start() without its guard
StartAlways ==
    /\ stop_waits = <<>>
    /\ EventLoopFree
    /\ CreateLoops(tasks)
    /\ NoStoreCall("start")

Start ==
    /\ stop_waits = <<>>
    /\ EventLoopFree
    /\ IF refresh_task # 0 \/ enrich_task # 0
       THEN UNCHANGED taskvars
       ELSE CreateLoops(tasks)
    /\ NoStoreCall("start")

\* restart() when the loops exist
Restart ==
    /\ stop_waits = <<>>
    /\ EventLoopFree
    /\ refresh_task # 0
    /\ enrich_task # 0
    /\ Clear
    /\ CreateLoops(CancelTasks(tasks, {refresh_task, enrich_task}))

\* restart() when there are no loops: None has no cancel()
RestartRaises ==
    /\ stop_waits = <<>>
    /\ EventLoopFree
    /\ refresh_task = 0
    /\ NoStoreCall("restart (raises)")
    /\ UNCHANGED taskvars

\* stop() up to its first `await t`
StopBegin ==
    /\ stop_waits = <<>>
    /\ EventLoopFree
    /\ IF refresh_task = 0 /\ enrich_task = 0
       THEN UNCHANGED taskvars
       ELSE /\ stopping' = TRUE
            /\ tasks' = CancelTasks(tasks, {refresh_task, enrich_task})
            /\ stop_waits' =
                    SelectSeq(<<refresh_task, enrich_task>>,
                              LAMBDA t : t # 0)
            /\ UNCHANGED <<refresh_task, enrich_task, stopped>>
    /\ NoStoreCall("stop")

\* stop() from the end of its awaits to its return
StopEnd ==
    /\ stop_waits # <<>>
    /\ EventLoopFree
    /\ \A i \in 1..Len(stop_waits) :
            stop_waits[i] \in TaskIds => tasks[stop_waits[i]].pc = "done"
    /\ refresh_task' = 0
    /\ enrich_task' = 0
    /\ stopping' = FALSE
    /\ stop_waits' = <<>>
    /\ stopped' = TRUE
    /\ UNCHANGED tasks
    /\ NoStoreCall("stop (returns)")

\* the frame of a step of task t: only its own record changes
TaskStep(t, pc, batch) ==
    /\ tasks' = [tasks EXCEPT ![t] =
            [@ EXCEPT !.pc = pc, !.cancel = FALSE, !.batch = batch]]
    /\ UNCHANGED <<refresh_task, enrich_task, stopping, stop_waits, stopped>>

\* refresh_loop wakes from a sleep and tests `while not _stopping.is_set()`
RefreshWake(t) ==
    /\ EventLoopFree
    /\ tasks[t].kind = "refresh"
    /\ \/ tasks[t].pc = "sleep"
       \/ tasks[t].pc = "delay" /\ CancelsDelivered
    /\ ~tasks[t].cancel
    /\ IF stopping
       THEN TaskStep(t, "done", <<>>) /\ NoStoreCall("refresh_loop exit")
       ELSE TaskStep(t, "gather", <<>>) /\ NoStoreCall("gather_models")

\* gather_models returns; update_models; the loop goes to sleep
RefreshFetched(t, ms) ==
    /\ EventLoopFree
    /\ tasks[t].kind = "refresh"
    /\ tasks[t].pc = "gather"
    /\ ~tasks[t].cancel
    /\ UpdateModels(ms)
    /\ TaskStep(t, IF stopping THEN "done" ELSE "sleep", <<>>)

\* variant: an exception in a refresh cycle ends the loop
RefreshFailedEndsLoop(t) ==
    /\ EventLoopFree
    /\ tasks[t].kind = "refresh"
    /\ tasks[t].pc = "gather"
    /\ ~tasks[t].cancel
    /\ TaskStep(t, "done", <<>>)
    /\ NoStoreCall("refresh_loop error")

\* gather_models or update_models raises: the error is logged, the store is
\* as it was, and the loop goes to sleep
RefreshFailed(t) ==
    /\ EventLoopFree
    /\ tasks[t].kind = "refresh"
    /\ tasks[t].pc = "gather"
    /\ ~tasks[t].cancel
    /\ TaskStep(t, IF stopping THEN "done" ELSE "sleep", <<>>)
    /\ NoStoreCall("refresh_loop error")

\* the CancelledError reaches refresh_loop
RefreshCancelled(t) ==
    /\ EventLoopFree
    /\ tasks[t].kind = "refresh"
    /\ tasks[t].pc # "done"
    /\ NextCancelled(t)
    /\ TaskStep(t,
                IF tasks[t].pc = "gather" /\ ~stopping
                THEN "sleep" ELSE "done",
                <<>>)
    /\ NoStoreCall("refresh_loop cancelled")

\* enrichment_loop at `while not _stopping.is_set()`: it leaves, or takes a
\* batch and either sleeps (empty batch) or calls the enricher
EnrichHead(t) ==
    /\ tasks[t].kind = "enrich"
    /\ \/ tasks[t].pc = "ready"
       \/ tasks[t].pc \in {"idle", "backoff"} /\ EventLoopFree
       \/ tasks[t].pc = "new" /\ EventLoopFree /\ CancelsDelivered
    /\ ~tasks[t].cancel
    /\ IF stopping
       THEN TaskStep(t, "done", <<>>) /\ NoStoreCall("enrichment_loop exit")
       ELSE LET b == EnrichmentBatch(queue, queued_keys, BrainMaxBatch)
            IN  /\ GetEnrichmentBatch(BrainMaxBatch)
                /\ TaskStep(t,
                            IF b.batch = <<>> THEN "idle" ELSE "enrich",
                            b.batch)

\* enrich_batch returns: apply_enrichment when the result is not empty,
\* requeue_models of the whole batch when it is
EnricherReturned(t, answer) ==
    LET batch == tasks[t].batch
        result == MapEnrichResult(KeysOf(batch), answer)
    IN  /\ EventLoopFree
        /\ tasks[t].kind = "enrich"
        /\ tasks[t].pc = "enrich"
        /\ ~tasks[t].cancel
        /\ IF result # <<>>
           THEN ApplyEnrichment(result)
           ELSE RequeueModels(batch)
        /\ TaskStep(t, "ready", <<>>)

\* variant: a failed batch is dropped
EnricherRaisedDropsBatch(t) ==
    /\ EventLoopFree
    /\ tasks[t].kind = "enrich"
    /\ tasks[t].pc = "enrich"
    /\ ~tasks[t].cancel
    /\ NoStoreCall("requeue_models")
    /\ TaskStep(t, "backoff", <<>>)

\* enrich_batch raises: requeue_models of the batch, then the idle sleep
EnricherRaised(t) ==
    /\ EventLoopFree
    /\ tasks[t].kind = "enrich"
    /\ tasks[t].pc = "enrich"
    /\ ~tasks[t].cancel
    /\ RequeueModels(tasks[t].batch)
    /\ TaskStep(t, "backoff", <<>>)

\* the CancelledError reaches enrichment_loop: a task that never ran ends;
\* a task inside the loop catches it in the loop body and goes on
EnrichCancelled(t) ==
    /\ EventLoopFree
    /\ tasks[t].kind = "enrich"
    /\ tasks[t].pc # "done"
    /\ NextCancelled(t)
    /\ TaskStep(t, IF tasks[t].pc = "new" THEN "done" ELSE "ready", <<>>)
    /\ NoStoreCall("enrichment_loop cancelled")

InitTasks == Init

NextTasks ==
    \/ Start /\ UNCHANGED <<lockvars, cachevars>>
    \/ Restart /\ UNCHANGED <<lockvars, cachevars>>
    \/ RestartRaises /\ UNCHANGED <<lockvars, cachevars>>
    \/ StopBegin /\ UNCHANGED <<lockvars, cachevars>>
    \/ StopEnd /\ UNCHANGED <<lockvars, cachevars>>
    \/ \E t \in TaskIds : RefreshWake(t) /\ UNCHANGED <<lockvars, cachevars>>
    \/ \E t \in TaskIds, ms \in GatherResults :
            RefreshFetched(t, ms) /\ UNCHANGED <<lockvars, cachevars>>
    \/ \E t \in TaskIds : RefreshFailed(t) /\ UNCHANGED <<lockvars, cachevars>>
    \/ \E t \in TaskIds : RefreshCancelled(t) /\ UNCHANGED <<lockvars, cachevars>>
    \/ \E t \in TaskIds : EnrichHead(t) /\ UNCHANGED <<lockvars, cachevars>>
    \/ \E t \in TaskIds, answer \in BrainAnswers :
            EnricherReturned(t, answer) /\ UNCHANGED <<lockvars, cachevars>>
    \/ \E t \in TaskIds : EnricherRaised(t) /\ UNCHANGED <<lockvars, cachevars>>
    \/ \E t \in TaskIds : EnrichCancelled(t) /\ UNCHANGED <<lockvars, cachevars>>

SpecTasks == InitTasks /\ [][NextTasks]_vars


(***************************************************************************)
(* model_sources: _fetch_models_for_provider and gather_models.            *)
(*                                                                         *)
(* A provider's answer to GET {internal_base_url}/models is                *)
(*   [kind |-> "connect_error"]   session.get raises: no connection        *)
(*   [kind |-> "timeout"]         session.get raises: the timeout expired  *)
(*   [kind |-> "http", status, json]   a response; json is <<payload>>, or *)
(*                                <<>> when the body is not JSON           *)
(***************************************************************************)
\* settings.provider_items: the configured providers with their names, in
\* two configurations: names in the order of the base_urls, and against it
ProviderItems ==
    {<<[name |-> "node-a", provider |-> ProviderA],
       [name |-> "node-b", provider |-> ProviderB]>>,
     <<[name |-> "node-b", provider |-> ProviderA],
       [name |-> "node-a", provider |-> ProviderB]>>}

\* entries of a /models payload: objects with a string id, a numeric id, a
\* null id and no id, and an entry that is not an object
SourceEntries ==
    {Obj([id |-> Str("alpha")]),
     Obj([id |-> Str("Gamma"), owned_by |-> Str("first")]),
     Obj([id |-> Num(5)]),
     Obj([id |-> Null]),
     Obj([owned_by |-> Str("first")]),
     Str("alpha")}

SourceEntryLists == ListsOf(SourceEntries, MaxEntries)

\* payloads: a bare list, a list under data, a single value under data, an
\* object without data, and values that are neither object nor list
SourcePayloads ==
    {List(l) : l \in SourceEntryLists}
        \cup {Obj([data |-> List(l)]) : l \in SourceEntryLists}
        \cup {Obj([data |-> e]) : e \in SourceEntries \cup {Null}}
        \cup {Obj([object |-> Str("list")]), Str("alpha"), Num(5), Null}

Statuses == {200, 399, 400, 503}

Responses ==
    {[kind |-> "connect_error"], [kind |-> "timeout"]}
        \cup {[kind |-> "http", status |-> st, json |-> <<>>] :
                st \in Statuses}
        \cup {[kind |-> "http", status |-> st, json |-> <<p>>] :
                st \in Statuses, p \in SourcePayloads}

\* str(x) for an id
PyStr(v) ==
    IF IsStr(v) THEN v.str
    ELSE IF IsNum(v) THEN <<"0", "1", "2", "3", "4", "5", "6", "7", "8",
                            "9">>[v.num + 1]
    ELSE "None"

\* Model(provider, payload) raises ValueError
ModelRaises(payload) == "id" \notin DOMAIN payload \/ IsNull(payload.id)

\* make_model: the payload with id as a string and with meta.base_url; the
\* model knows its provider and the provider's name
MakeModel(provider_name, provider, payload) ==
    LET id == PyStr(payload.id)
        meta == IF "meta" \in DOMAIN payload /\ IsObj(payload.meta)
                THEN payload.meta.obj ELSE <<>>
    IN  [key |-> ModelKey(provider, id),
         provider_name |-> provider_name,
         raw |-> Put(Put(payload, "id", Str(id)),
                     "meta",
                     Obj(Put(meta, "base_url", Str(provider.base_url))))]

\* the entries the payload is read as
ModelsRaw(payload) ==
    IF IsObj(payload)
    THEN IF "data" \in DOMAIN payload.obj /\ IsList(payload.obj.data)
         THEN payload.obj.data.list
         ELSE IF "data" \in DOMAIN payload.obj /\ IsObj(payload.obj.data)
              THEN <<payload.obj.data>>
              ELSE <<>>
    ELSE IF IsList(payload) THEN payload.list
    ELSE <<>>

\* the loop over models_raw: a model for an object with a key id, unless
\* make_model raises
ModelsOfEntries(provider_name, provider, models_raw) ==
    LET made == SelectSeq(models_raw,
                    LAMBDA m : /\ IsObj(m)
                               /\ "id" \in DOMAIN m.obj
                               /\ ~ModelRaises(m.obj))
    IN  [i \in 1..Len(made) |-> MakeModel(provider_name, provider, made[i].obj)]

\* the outcome of a call: either it raised or it returned models
Returned(ms) == [raised |-> FALSE, models |-> ms]
Raised == [raised |-> TRUE, models |-> <<>>]

\* variant: an HTTP error status is raised to the caller
FetchRaisesForStatus(provider_name, provider, response) ==
    IF response.kind # "http" THEN Returned(<<>>)
    ELSE IF response.status >= 400 THEN Raised
    ELSE IF response.json = <<>> THEN Returned(<<>>)
    ELSE Returned(ModelsOfEntries(provider_name, provider,
                                  ModelsRaw(response.json[1])))

\* variant: an entry counts only when its id is a string
FetchStringIdsOnly(provider_name, provider, response) ==
    IF response.kind # "http" THEN Returned(<<>>)
    ELSE IF response.status >= 400 THEN Returned(<<>>)
    ELSE IF response.json = <<>> THEN Returned(<<>>)
    ELSE Returned(ModelsOfEntries(provider_name, provider,
            SelectSeq(ModelsRaw(response.json[1]),
                      LAMBDA m : IsObj(m) /\ "id" \in DOMAIN m.obj
                                    => IsStr(m.obj.id))))

FetchModelsForProvider(provider_name, provider, response) ==
    IF response.kind # "http" THEN Returned(<<>>)
    ELSE IF response.status >= 400 THEN Returned(<<>>)
    ELSE IF response.json = <<>> THEN Returned(<<>>)
    ELSE Returned(ModelsOfEntries(provider_name, provider,
                                  ModelsRaw(response.json[1])))

\* the call: the request is in last.arg, the outcome goes to last.ret
FetchModels ==
    /\ last.op = "request"
    /\ LET r == FetchModelsForProvider(last.arg[1], last.arg[2], last.arg[3])
       IN  last' = [last EXCEPT !.op = "_fetch_models_for_provider",
                                !.ret = r.models,
                                !.raised = r.raised]
    /\ UNCHANGED <<models, enriched, queue, queued_keys, last_update_ts,
                   handouts>>

InitFetch ==
    /\ models = <<>>
    /\ enriched = <<>>
    /\ queue = <<>>
    /\ queued_keys = {}
    /\ last_update_ts = 0
    /\ handouts = [k \in Keys |-> 0]
    /\ \E items \in ProviderItems, i \in 1..2, response \in Responses :
            last = [NoCall EXCEPT
                        !.op = "request",
                        !.arg = <<items[i].name, items[i].provider,
                                  response>>]
    /\ lock = FALSE
    /\ lock_waiters = {}
    /\ upd = <<>>
    /\ tasks = <<>>
    /\ refresh_task = 0
    /\ enrich_task = 0
    /\ stopping = FALSE
    /\ stop_waits = <<>>
    /\ stopped = FALSE
    /\ CacheInit

NextFetch == FetchModels /\ UNCHANGED <<lockvars, taskvars, cachevars>>

SpecFetch == InitFetch /\ [][NextFetch]_vars

(***************************************************************************)
(* gather_models.  asyncio.gather(..., return_exceptions=True) hands back  *)
(* one result per provider, in the order of settings.provider_items,       *)
(* whatever the order in which the fetches complete; a result is the       *)
(* exception the fetch raised or the list it returned.                     *)
(***************************************************************************)
\* what a provider's fetch may come to: an exception, or what
\* _fetch_models_for_provider makes of a response
FetchOutcomes(item) ==
    {Raised} \cup
        {FetchModelsForProvider(item.name, item.provider, response) :
            response \in Responses}

\* the results of the fetches, for each configuration and each order in
\* which the two fetches complete
GatherInputs ==
    UNION {{[items |-> items, results |-> <<r1, r2>>, completed |-> order] :
                r1 \in FetchOutcomes(items[1]),
                r2 \in FetchOutcomes(items[2]),
                order \in {<<1, 2>>, <<2, 1>>}} :
           items \in ProviderItems}

\* all_models.extend(res) for every result that is not an exception
RECURSIVE AllModels(_)
AllModels(results) ==
    IF results = <<>> THEN <<>>
    ELSE IF Head(results).raised THEN AllModels(Tail(results))
    ELSE Head(results).models \o AllModels(Tail(results))

\* the key all_models.sort() compares: (provider name, m.key.id.lower())
GatherSortKey(m) ==
    <<CodePoints(m.provider_name), LowerCase(CodePoints(m.key.id))>>

RECURSIVE GatherSortedInsert(_, _)
GatherSortedInsert(sorted, m) ==
    IF sorted = <<>> THEN <<m>>
    ELSE IF KeyLess(GatherSortKey(m), GatherSortKey(sorted[Len(sorted)]))
         THEN Append(GatherSortedInsert(SubSeq(sorted, 1, Len(sorted) - 1), m),
                     sorted[Len(sorted)])
         ELSE Append(sorted, m)

RECURSIVE GatherSort(_, _)
GatherSort(sorted, ms) ==
    IF ms = <<>> THEN sorted
    ELSE GatherSort(GatherSortedInsert(sorted, Head(ms)), Tail(ms))

\* variant: the results are taken as the fetches complete and not sorted
GatherModelsAsCompleted(results, completed) ==
    AllModels([i \in 1..Len(completed) |-> results[completed[i]]])

\* variant: one failed fetch fails the whole aggregation
GatherModelsAllOrNothing(results, completed) ==
    IF \E i \in 1..Len(results) : results[i].raised
    THEN <<>>
    ELSE GatherSort(<<>>, AllModels(results))

GatherModels(results, completed) == GatherSort(<<>>, AllModels(results))

\* the call: the fetch results are in last.arg, the list goes to last.ret
GatherModelsCall ==
    /\ last.op = "fetches"
    /\ last' = [last EXCEPT
                    !.op = "gather_models returns",
                    !.ret = GatherModels(last.arg.results,
                                         last.arg.completed)]
    /\ UNCHANGED <<models, enriched, queue, queued_keys, last_update_ts,
                   handouts>>

InitGather ==
    /\ models = <<>>
    /\ enriched = <<>>
    /\ queue = <<>>
    /\ queued_keys = {}
    /\ last_update_ts = 0
    /\ handouts = [k \in Keys |-> 0]
    /\ \E input \in GatherInputs :
            last = [NoCall EXCEPT !.op = "fetches", !.arg = input]
    /\ lock = FALSE
    /\ lock_waiters = {}
    /\ upd = <<>>
    /\ tasks = <<>>
    /\ refresh_task = 0
    /\ enrich_task = 0
    /\ stopping = FALSE
    /\ stop_waits = <<>>
    /\ stopped = FALSE
    /\ CacheInit

NextGather == GatherModelsCall /\ UNCHANGED <<lockvars, taskvars, cachevars>>

SpecGather == InitGather /\ [][NextGather]_vars

(***************************************************************************)
(* A refresh cycle of refresh_loop against the store: the fetches come in, *)
(* gather_models returns, update_models runs; nothing runs in between.     *)
(* Between cycles the enrichment loop takes batches and stores results.    *)
(***************************************************************************)
\* the fetch results whose models have keys of Keys
RefreshInputs ==
    {input \in GatherInputs :
        \A i \in 1..2 : \A j \in 1..Len(input.results[i].models) :
            input.results[i].models[j].key \in Keys}

MidCycle == last.op \in {"fetches", "gather_models returns"}

RefreshFetches(input) ==
    /\ ~MidCycle
    /\ last' = [NoCall EXCEPT !.op = "fetches", !.arg = input]
    /\ UNCHANGED <<models, enriched, queue, queued_keys, last_update_ts,
                   handouts>>

RefreshUpdate ==
    /\ last.op = "gather_models returns"
    /\ UpdateModels(last.ret)

NextRefresh ==
    \/ \E input \in RefreshInputs :
            RefreshFetches(input) /\ UNCHANGED <<lockvars, taskvars, cachevars>>
    \/ GatherModelsCall /\ UNCHANGED <<lockvars, taskvars, cachevars>>
    \/ RefreshUpdate /\ UNCHANGED <<lockvars, taskvars, cachevars>>
    \/ /\ ~MidCycle
       /\ GetEnrichmentBatch(BrainMaxBatch)
       /\ UNCHANGED <<lockvars, taskvars, cachevars>>
    \/ \E enriched_models \in EnrichedLists :
            /\ ~MidCycle
            /\ ApplyEnrichment(enriched_models)
            /\ UNCHANGED <<lockvars, taskvars, cachevars>>

SpecRefresh == Init /\ [][NextRefresh]_vars

(***************************************************************************)
(* enrich_model._merge_enrichment.  A model is the record make_model       *)
(* builds; its meta is the dict under raw.meta.                            *)
(***************************************************************************)
\* model.meta
MetaOf(model) == model.raw.meta.obj

\* model.meta = meta
WithMeta(model, meta) == [model EXCEPT !.raw.meta = Obj(meta)]

\* model.id
IdOf(model) == model.raw.id.str

\* ModelMeta.base_url: str(self.get("base_url") or "")
MetaBaseUrl(meta) ==
    IF "base_url" \in DOMAIN meta /\ IsStr(meta.base_url)
    THEN meta.base_url.str ELSE ""

\* d.get(k) of a JSON object
JsonGet(d, k) == IF k \in DOMAIN d THEN d[k] ELSE Null

\* the tests of the loop body that lead to the merge
MatchesModel(model, item) ==
    /\ IsObj(item)
    /\ Str(IdOf(model)) = JsonGet(item.obj, "id")
    /\ Str(MetaBaseUrl(MetaOf(model))) = JsonGet(item.obj, "base_url")

\* for key, value in item.items(): meta.setdefault(key, value), id aside
MergeItem(meta, d) ==
    [k \in (DOMAIN meta) \cup ((DOMAIN d) \ {"id"}) |->
        IF k \in DOMAIN meta THEN meta[k] ELSE d[k]]

\* the loop over enriched_list, which ends at the first entry it merges
RECURSIVE MergeEnrichment(_, _)
MergeEnrichment(model, enriched_list) ==
    IF enriched_list = <<>> THEN model
    ELSE IF MatchesModel(model, Head(enriched_list))
         THEN WithMeta(model,
                       MergeItem(MetaOf(model), Head(enriched_list).obj))
         ELSE MergeEnrichment(model, Tail(enriched_list))

\* the models the brain is asked about
BrainModels ==
    {MakeModel("node-a", ProviderA, [id |-> Str("alpha")]),
     MakeModel("node-a", ProviderA,
               [id |-> Str("alpha"),
                meta |-> Obj([summary |-> Str("old")])]),
     MakeModel("node-a", ProviderA,
               [id |-> Str("alpha"), meta |-> Obj([size |-> Num(3)])])}

\* entries of a response: for the model, with one field or another; for
\* another provider; for another id; without base_url; with a numeric id;
\* and an entry that is not an object
ResponseItems ==
    {Obj([id |-> Str("alpha"), base_url |-> Str(ProviderA.base_url),
          summary |-> Str("desc")]),
     Obj([id |-> Str("alpha"), base_url |-> Str(ProviderA.base_url),
          types |-> Str("llm"), size |-> Num(5)]),
     Obj([id |-> Str("alpha"), base_url |-> Str(ProviderB.base_url),
          summary |-> Str("desc")]),
     Obj([id |-> Str("Gamma"), base_url |-> Str(ProviderA.base_url),
          summary |-> Str("desc")]),
     Obj([id |-> Str("alpha"), summary |-> Str("desc")]),
     Obj([id |-> Num(5), base_url |-> Str(ProviderA.base_url),
          summary |-> Str("desc")]),
     Str("alpha")}

ResponseItemLists == ListsOf(ResponseItems, MaxItems)

\* the call: model and enriched_list are in last.arg, the model as the call
\* leaves it goes to last.ret
MergeEnrichmentCall ==
    /\ last.op = "enriched_list"
    /\ last' = [last EXCEPT
                    !.op = "_merge_enrichment",
                    !.ret = MergeEnrichment(last.arg[1], last.arg[2])]
    /\ UNCHANGED <<models, enriched, queue, queued_keys, last_update_ts,
                   handouts>>

InitMerge ==
    /\ models = <<>>
    /\ enriched = <<>>
    /\ queue = <<>>
    /\ queued_keys = {}
    /\ last_update_ts = 0
    /\ handouts = [k \in Keys |-> 0]
    /\ \E model \in BrainModels, enriched_list \in ResponseItemLists :
            last = [NoCall EXCEPT !.op = "enriched_list",
                                  !.arg = <<model, enriched_list>>]
    /\ lock = FALSE
    /\ lock_waiters = {}
    /\ upd = <<>>
    /\ tasks = <<>>
    /\ refresh_task = 0
    /\ enrich_task = 0
    /\ stopping = FALSE
    /\ stop_waits = <<>>
    /\ stopped = FALSE
    /\ CacheInit

NextMerge == MergeEnrichmentCall /\ UNCHANGED <<lockvars, taskvars, cachevars>>

SpecMerge == InitMerge /\ [][NextMerge]_vars

(***************************************************************************)
(* files_size.gather_files_size.  The script's run is an outcome: no       *)
(* gatherer configured, no script at the path, a failure to start, a       *)
(* timeout, or an exit with a return code and the text on stdout, which is *)
(* a sequence of characters.                                               *)
(***************************************************************************)
Digits == <<"0", "1", "2", "3", "4", "5", "6", "7", "8", "9">>

IsDigit(c) == \E i \in 1..10 : Digits[i] = c

DigitValue(c) == (CHOOSE i \in 1..10 : Digits[i] = c) - 1

IsSpace(c) == c \in {" ", "\n", "\t"}

\* str.strip()
RECURSIVE LStrip(_)
LStrip(cs) ==
    IF cs # <<>> /\ IsSpace(Head(cs)) THEN LStrip(Tail(cs)) ELSE cs

RECURSIVE RStrip(_)
RStrip(cs) ==
    IF cs # <<>> /\ IsSpace(cs[Len(cs)])
    THEN RStrip(SubSeq(cs, 1, Len(cs) - 1)) ELSE cs

Strip(cs) == RStrip(LStrip(cs))

RECURSIVE DecimalValue(_, _)
DecimalValue(acc, cs) ==
    IF cs = <<>> THEN acc
    ELSE DecimalValue(10 * acc + DigitValue(Head(cs)), Tail(cs))

IsDecimal(cs) == cs # <<>> /\ \A i \in 1..Len(cs) : IsDigit(cs[i])

\* int(s) for a text: <<n>>, or <<>> where int raises ValueError
PyInt(cs) ==
    LET t == Strip(cs)
    IN  IF t # <<>> /\ Head(t) \in {"+", "-"}
        THEN IF IsDecimal(Tail(t))
             THEN <<(IF Head(t) = "-" THEN 0 - 1 ELSE 1)
                        * DecimalValue(0, Tail(t))>>
             ELSE <<>>
        ELSE IF IsDecimal(t) THEN <<DecimalValue(0, t)>> ELSE <<>>

\* what the script prints
Stdouts ==
    {<<"5">>, <<"-", "5">>, <<"a">>, <<>>, <<" ", "1", "2", "\n">>}

ScriptOutcomes ==
    {[kind |-> "disabled"], [kind |-> "missing"], [kind |-> "start_error"],
     [kind |-> "timeout"]}
        \cup {[kind |-> "exit", returncode |-> 0, stdout |-> out] :
                out \in Stdouts}
        \cup {[kind |-> "exit", returncode |-> 1, stdout |-> <<"5">>]}

\* variant: the return code of the script is not looked at
GatherFilesSizeAnyExit(outcome) ==
    IF outcome.kind # "exit" THEN <<>>
    ELSE LET size == PyInt(outcome.stdout)
         IN  IF size = <<>> \/ size[1] < 0 THEN <<>> ELSE size

\* the size returned, <<>> for None
GatherFilesSize(outcome) ==
    IF outcome.kind # "exit" THEN <<>>
    ELSE IF outcome.returncode # 0 THEN <<>>
    ELSE LET size == PyInt(outcome.stdout)
         IN  IF size = <<>> \/ size[1] < 0 THEN <<>> ELSE size

(***************************************************************************)
(* enrich_model.enrich_batch.  For each model of the batch the environment *)
(* holds the outcome of the size script and the reply of the brain.        *)
(***************************************************************************)
\* what chat_completions returns: nothing, a text without JSON, or a text
\* that parses to a JSON value
BrainReplies ==
    {[kind |-> "none"], [kind |-> "unparsable"],
     [kind |-> "json",
      value |-> Obj([id |-> Str("alpha"),
                     base_url |-> Str(ProviderA.base_url),
                     summary |-> Str("desc")])],
     [kind |-> "json",
      value |-> List(<<Obj([id |-> Str("alpha"),
                            base_url |-> Str(ProviderA.base_url),
                            summary |-> Str("desc")])>>)],
     [kind |-> "json",
      value |-> List(<<Obj([id |-> Str("alpha"),
                            base_url |-> Str(ProviderB.base_url),
                            summary |-> Str("desc")])>>)],
     [kind |-> "json",
      value |-> List(<<Obj([id |-> Str("alpha"),
                            base_url |-> Str(ProviderA.base_url),
                            types |-> Str("llm"), size |-> Num(5)])>>)]}

\* _get_enriched_list: the list the reply parses to, [] for anything else
EnrichedList(reply) ==
    IF reply.kind = "json" /\ IsList(reply.value)
    THEN reply.value.list ELSE <<>>

BatchModels ==
    {MakeModel("node-a", ProviderA, [id |-> Str("alpha")]),
     MakeModel("node-a", ProviderA,
               [id |-> Str("alpha"), meta |-> Obj([size |-> Num(3)])]),
     MakeModel("node-b", ProviderB, [id |-> Str("alpha")])}

\* a batch with its environment: one record per model
BatchInputs ==
    ListsOf([model : BatchModels, script : ScriptOutcomes,
             reply : BrainReplies], BrainMaxBatch)

\* the body of the loop for one model, entered at time t: the model as it
\* is returned, the calls made for it, each from the time it began to the
\* time it ended, and the time the body is left
EnrichOne(input, t) ==
    LET model == input.model
        has_files_size == "size" \in DOMAIN MetaOf(model)
        files_size_bytes == GatherFilesSize(input.script)
        sized == IF ~has_files_size /\ files_size_bytes # <<>>
                 THEN WithMeta(model,
                               SetDefault(MetaOf(model), "size",
                                          Num(files_size_bytes[1])))
                 ELSE model
        t_brain == IF has_files_size THEN t ELSE t + 2
    IN  [model |-> MergeEnrichment(sized, EnrichedList(input.reply)),
         calls |->
            (IF has_files_size THEN <<>>
             ELSE <<[op |-> "gather_files_size", model |-> model.key,
                     killed |-> input.script.kind = "timeout",
                     ret |-> files_size_bytes,
                     began |-> t, ended |-> t + 1]>>)
                \o <<[op |-> "chat_completions", model |-> model.key,
                      began |-> t_brain, ended |-> t_brain + 1]>>,
         left |-> t_brain + 2]

\* variant: the bodies of all models are entered at once
RECURSIVE EnrichBatchFanOut(_)
EnrichBatchFanOut(inputs) ==
    IF inputs = <<>> THEN [ret |-> <<>>, calls |-> <<>>]
    ELSE LET one == EnrichOne(Head(inputs), 0)
             rest == EnrichBatchFanOut(Tail(inputs))
         IN  [ret |-> <<one.model>> \o rest.ret,
              calls |-> one.calls \o rest.calls]

\* the loop from time t on
RECURSIVE EnrichBatchFrom(_, _)
EnrichBatchFrom(inputs, t) ==
    IF inputs = <<>> THEN [ret |-> <<>>, calls |-> <<>>]
    ELSE LET one == EnrichOne(Head(inputs), t)
             rest == EnrichBatchFrom(Tail(inputs), one.left)
         IN  [ret |-> <<one.model>> \o rest.ret,
              calls |-> one.calls \o rest.calls]

\* the list enrich_batch returns and the calls it makes
EnrichBatch(inputs) == EnrichBatchFrom(inputs, 0)

\* the call: the batch and its environment are in last.arg; the value
\* returned, a list, goes to last.ret
EnrichBatchCall ==
    /\ last.op = "batch"
    /\ LET r == EnrichBatch(last.arg)
       IN  last' = [last EXCEPT !.op = "enrich_batch",
                                !.ret = List(r.ret),
                                !.calls = r.calls]
    /\ UNCHANGED <<models, enriched, queue, queued_keys, last_update_ts,
                   handouts>>

InitEnrich ==
    /\ models = <<>>
    /\ enriched = <<>>
    /\ queue = <<>>
    /\ queued_keys = {}
    /\ last_update_ts = 0
    /\ handouts = [k \in Keys |-> 0]
    /\ \E inputs \in BatchInputs :
            last = [NoCall EXCEPT !.op = "batch", !.arg = inputs]
    /\ lock = FALSE
    /\ lock_waiters = {}
    /\ upd = <<>>
    /\ tasks = <<>>
    /\ refresh_task = 0
    /\ enrich_task = 0
    /\ stopping = FALSE
    /\ stop_waits = <<>>
    /\ stopped = FALSE
    /\ CacheInit

NextEnrich == EnrichBatchCall /\ UNCHANGED <<lockvars, taskvars, cachevars>>

SpecEnrich == InitEnrich /\ [][NextEnrich]_vars

(***************************************************************************)
(* model_info: WebsiteInfoCache and _get_markdown_for_source.  A lookup    *)
(* is the call of _get_markdown_for_source for a (source key, model id);   *)
(* it runs from its call to the await of the download, and from the end of *)
(* the download to its return.  The cache's lock is never held across an   *)
(* await, so get and set are not suspended.                                *)
(***************************************************************************)
CacheTtl == 2

CacheKeys == {<<"huggingface", "llama3">>, <<"ollama", "llama3">>}

\* what a download comes to: a markdown text, or None
Markdowns == {Str("first text"), Str("second text"), Null}

\* variant: an entry expires when its age reaches the TTL
IsExpiredAtTtl(entry) == (clock - entry.stored_at) >= CacheTtl

\* WebsiteInfoCache._is_expired
IsExpired(entry) == (clock - entry.stored_at) > CacheTtl

\* WebsiteInfoCache.get: (hit, value) and the entries it leaves
CacheGet(key) ==
    IF key \notin DOMAIN cache_entries
    THEN [hit |-> FALSE, value |-> Null, entries |-> cache_entries]
    ELSE IF IsExpired(cache_entries[key])
         THEN [hit |-> FALSE, value |-> Null,
               entries |-> Pop(cache_entries, key)]
         ELSE [hit |-> TRUE, value |-> cache_entries[key].value,
               entries |-> cache_entries]

\* WebsiteInfoCache.set
CacheSet(key, value) ==
    Put(cache_entries, key, [value |-> value, stored_at |-> clock])

\* time.time() moves on
Tick ==
    /\ clock < MaxClock
    /\ clock' = clock + 1
    /\ last' = [NoCall EXCEPT !.op = "time passes"]
    /\ UNCHANGED <<cache_entries, lookups>>

\* _get_markdown_for_source is called: on a hit it returns the cached
\* value, on a miss it awaits the download
LookupCall(p, key) ==
    /\ lookups[p] = <<>>
    /\ LET got == CacheGet(key)
       IN  /\ cache_entries' = got.entries
           /\ IF got.hit
              THEN /\ lookups' = lookups
                   /\ last' = [NoCall EXCEPT
                                !.op = "_get_markdown_for_source",
                                !.arg = key,
                                !.ret = got.value]
              ELSE /\ lookups' = [lookups EXCEPT ![p] = <<key>>]
                   /\ last' = [NoCall EXCEPT
                                !.op = "_CACHE.get (miss)",
                                !.arg = key]
    /\ UNCHANGED clock

\* the download ends with markdown or None, which is stored and returned
LookupDownloaded(p, markdown) ==
    /\ lookups[p] # <<>>
    /\ cache_entries' = CacheSet(lookups[p][1], markdown)
    /\ lookups' = [lookups EXCEPT ![p] = <<>>]
    /\ last' = [NoCall EXCEPT
                    !.op = "_get_markdown_for_source",
                    !.arg = lookups[p][1],
                    !.ret = markdown,
                    !.calls = <<[op |-> "_download_markdown",
                                 key |-> lookups[p][1]]>>]
    /\ UNCHANGED clock

NextCache ==
    \/ /\ Tick
       /\ UNCHANGED <<models, enriched, queue, queued_keys, last_update_ts,
                      handouts, lockvars, taskvars>>
    \/ \E p \in LookupIds, key \in CacheKeys :
            /\ LookupCall(p, key)
            /\ UNCHANGED <<models, enriched, queue, queued_keys,
                           last_update_ts, handouts, lockvars, taskvars>>
    \/ \E p \in LookupIds, markdown \in Markdowns :
            /\ LookupDownloaded(p, markdown)
            /\ UNCHANGED <<models, enriched, queue, queued_keys,
                           last_update_ts, handouts, lockvars, taskvars>>

SpecCache == Init /\ [][NextCache]_vars

(***************************************************************************)
(* Vocabulary of the properties.                                           *)
(***************************************************************************)
\* the elements of a list that carry key k, in order
OfKey(list, k) == SelectSeq(list, LAMBDA m : m.key = k)

\* everything the store holds about key k
KeyView(k) ==
    <<k \in KeysOf(models),
      IF k \in DOMAIN enriched THEN <<enriched[k]>> ELSE <<>>,
      OfKey(queue, k),
      k \in queued_keys>>

\* the last element of a list that carries key k
LastOfKey(list, k) ==
    list[CHOOSE i \in 1..Len(list) :
            /\ list[i].key = k
            /\ \A j \in (i + 1)..Len(list) : list[j].key # k]

\* the elements of a list at the positions in I, in order
RECURSIVE PickFrom(_, _, _)
PickFrom(list, I, i) ==
    IF i > Len(list) THEN <<>>
    ELSE (IF i \in I THEN <<list[i]>> ELSE <<>>) \o PickFrom(list, I, i + 1)

Pick(list, I) == PickFrom(list, I, 1)

\* the positions of a list that hold the first occurrence of their key
FirstOfKey(list) ==
    {i \in 1..Len(list) : \A j \in 1..(i - 1) : list[j].key # list[i].key}

Min(a, b) == IF a < b THEN a ELSE b

(***************************************************************************)
(* C1  REMOVAL-CASCADE                                                     *)
(***************************************************************************)
\* a call carrying the list left alone everything about the keys it carried
\* that the store does not hold, and left the whole store alone when it
\* carried only such keys
IgnoredAbsent(list) ==
    /\ \A k \in KeysOf(list) \ KeysOf(models) : KeyView(k)' = KeyView(k)
    /\ (KeysOf(list) \cap KeysOf(models) = {}
            => UNCHANGED <<models, enriched, queue, queued_keys>>)

\* C1: every key that is in the store before update_models(new) and is not a
\* key of new is, right after the call, neither in models nor in queued_keys;
\* and an apply_enrichment or requeue_models that carries a key absent from
\* the store changes nothing of models, enrichment, queue and queued_keys
\* for that key.
RemovalCascade ==
    [][/\ (last'.op = "update_models" =>
                \A k \in KeysOf(models) \ KeysOf(last'.arg) :
                    /\ k \notin KeysOf(models')
                    /\ k \notin queued_keys')
       /\ (last'.op = "apply_enrichment" =>
                \A list \in EnrichedLists :
                    ApplyEnrichment(list) => IgnoredAbsent(list))
       /\ (last'.op = "requeue_models" =>
                \A list \in ModelLists :
                    RequeueModels(list) => IgnoredAbsent(list))]_vars

\* update_models has just removed a key whose model is still in the queue
RemovalCascadeWitness ==
    /\ last.op = "update_models"
    /\ last.removed \cap KeysOf(queue) # {}
    /\ last.removed \cap queued_keys = {}

(***************************************************************************)
(* C2  IDEMPOTENT-REFRESH                                                  *)
(***************************************************************************)
\* C2: an update_models(S) that directly follows an update_models(S) leaves
\* models and the stored enrichment as the first call left them and adds
\* nothing to the queue.
IdempotentRefresh ==
    [][last'.repeat =>
            /\ models' = models
            /\ enriched' = enriched
            /\ queue' = queue
            /\ queued_keys' = queued_keys]_vars

\* the second of two equal updates has run on a store that holds models,
\* enrichment and a queue
IdempotentRefreshWitness ==
    /\ last.op = "update_models"
    /\ last.repeat
    /\ models # <<>>
    /\ DOMAIN enriched # {}
    /\ queue # <<>>

(***************************************************************************)
(* C3  Dedup queue                                                         *)
(***************************************************************************)
\* C3: after any sequence of update_models and requeue_models calls with no
\* get_enrichment_batch in between, the queue holds at most one element per
\* key, so a get_enrichment_batch that drains it returns each model once.
DedupQueue ==
    \A k \in Keys :
        /\ CountKey(queue, k) <= 1
        /\ CountKey(EnrichmentBatch(queue, queued_keys, Len(queue)).batch, k) <= 1

(***************************************************************************)
(* C4  AT-MOST-ONE-QUEUE bound                                             *)
(***************************************************************************)
\* C4: for every key, the number of queue elements with that key plus one if
\* the key is in queued_keys is at most 2.
AtMostOneQueueBound ==
    \A k \in Keys :
        CountKey(queue, k) + (IF k \in queued_keys THEN 1 ELSE 0) <= 2

(***************************************************************************)
(* C5  Queue invariant                                                     *)
(***************************************************************************)
\* C5: the key of every queue element is in queued_keys, and a key leaves
\* queued_keys only when get_enrichment_batch pops its element.
QueueInvariant ==
    /\ [](KeysOf(queue) \subseteq queued_keys)
    /\ [][\A k \in queued_keys \ queued_keys' :
            /\ last'.op = "get_enrichment_batch"
            /\ k \in KeysOf(last'.ret)]_vars

(***************************************************************************)
(* C6  At most once per lifetime                                           *)
(***************************************************************************)
\* C6: within one lifetime of a key in the store, get_enrichment_batch hands
\* the key out at most once unless it was requeued in between.
AtMostOncePerLifetime ==
    \A k \in Keys : handouts[k] <= 1

ApplyEnrichmentFrame ==
    [][last'.op = "apply_enrichment" =>
            /\ models' = models
            /\ queue' = queue
            /\ queued_keys' = queued_keys
            /\ last_update_ts' = last_update_ts
            /\ \A list \in EnrichedLists :
                    ApplyEnrichment(list) =>
                        LET hit == KeysOf(list) \cap KeysOf(models)
                        IN  /\ DOMAIN enriched' = (DOMAIN enriched) \cup hit
                            /\ \A k \in DOMAIN enriched' :
                                    enriched'[k] =
                                        IF k \in hit THEN LastOfKey(list, k)
                                        ELSE enriched[k]
                            /\ (list = <<>> => enriched' = enriched)]_vars

\* apply_enrichment has just run with a key the store holds, whose result is
\* now stored, and with a key the store does not hold
ApplyEnrichmentWitness ==
    /\ last.op = "apply_enrichment"
    /\ last.skipped
    /\ DOMAIN enriched # {}
    /\ KeysOf(models) # {}

(***************************************************************************)
(* C9  requeue_models                                                      *)
(***************************************************************************)
\* what requeue_models(list) is to append: the first occurrence of every
\* carried key that is in models and not in queued_keys, in argument order
Requeued(list) ==
    Pick(list, {i \in FirstOfKey(list) :
                    /\ list[i].key \in KeysOf(models)
                    /\ list[i].key \notin queued_keys})

\* C9: requeue_models(list) appends to the tail of the queue, in argument
\* order, exactly the carried models whose key is in models and not queued,
\* and skips the rest; with an empty queue and all models known, a following
\* get_enrichment_batch that drains the queue returns the list in its order
\* with duplicate keys removed; requeue_models([]) changes nothing.
RequeueContract ==
    [][last'.op = "requeue_models" =>
            /\ models' = models
            /\ enriched' = enriched
            /\ last_update_ts' = last_update_ts
            /\ \A list \in ModelLists :
                    RequeueModels(list) =>
                        /\ queue' = queue \o Requeued(list)
                        /\ queued_keys' = queued_keys \cup KeysOf(Requeued(list))
                        /\ (queue = <<>> /\ KeysOf(list) \subseteq KeysOf(models)
                                => EnrichmentBatch(queue', queued_keys',
                                                   Len(list)).batch
                                        = Pick(list, FirstOfKey(list)))
                        /\ (list = <<>> =>
                                queue' = queue /\ queued_keys' = queued_keys)]_vars

\* requeue_models has just appended to the queue, which now holds two
\* elements
RequeueWitness ==
    /\ last.op = "requeue_models"
    /\ last.enq >= 1
    /\ Len(queue) >= 2

(***************************************************************************)
(* C10  get_enrichment_batch                                               *)
(***************************************************************************)
\* C10: get_enrichment_batch(n) returns the first min(n, queue length)
\* elements of the queue in FIFO order, removes exactly those from the queue
\* and their keys from queued_keys, can always be called, and returns []
\* leaving the store unchanged when n <= 0 or the queue is empty.
NextBatchContract ==
    /\ [](\A n \in BatchSizes : ENABLED GetEnrichmentBatch(n))
    /\ [][last'.op = "get_enrichment_batch" =>
            /\ models' = models
            /\ enriched' = enriched
            /\ last_update_ts' = last_update_ts
            /\ queue = last'.ret \o queue'
            /\ queued_keys' = queued_keys \ KeysOf(last'.ret)
            /\ \A n \in BatchSizes :
                    GetEnrichmentBatch(n) =>
                        /\ Len(last'.ret) = Min(IF n < 0 THEN 0 ELSE n, Len(queue))
                        /\ (n <= 0 \/ queue = <<>> =>
                                /\ last'.ret = <<>>
                                /\ queue' = queue
                                /\ queued_keys' = queued_keys)]_vars

\* get_enrichment_batch has just returned the head of the queue and left
\* another model queued
NextBatchWitness ==
    /\ last.op = "get_enrichment_batch"
    /\ Len(last.ret) >= 1
    /\ queue # <<>>
    /\ KeysOf(queue) \cap KeysOf(last.ret) = {}

(***************************************************************************)
(* C11  Clear during enrichment                                            *)
(***************************************************************************)
\* the store as clear() is to leave it
StoreEmpty ==
    /\ models = <<>>
    /\ DOMAIN enriched = {}
    /\ queue = <<>>
    /\ queued_keys = {}
    /\ last_update_ts = 0

\* C11: clear() leaves no models, no stored enrichment, an empty queue,
\* empty queued_keys and last_update_ts = 0; on the store so left, every
\* apply_enrichment and every requeue_models changes nothing, get_snapshot
\* returns [] and get_enrichment_batch returns [].
ClearDuringEnrichment ==
    [][/\ (last'.op = "clear" => StoreEmpty')
       /\ (StoreEmpty =>
            /\ (last'.op \in {"apply_enrichment", "requeue_models",
                              "get_snapshot", "get_enrichment_batch"}
                    => StoreEmpty')
            /\ (last'.op \in {"get_snapshot", "get_enrichment_batch"}
                    => last'.ret = <<>>))]_vars

\* clear() has just emptied a store one of whose models was out in a batch
ClearWitness ==
    /\ last.op = "clear"
    /\ last.handed # {}
    /\ StoreEmpty

(***************************************************************************)
(* C12  Snapshot atomicity                                                 *)
(***************************************************************************)
\* C12: a get_snapshot that is called while update_models is under way
\* returns the catalog as it was before the whole update or as it is after
\* it, never a state in between; the update ends in the catalog that the
\* whole call makes of the store it started on.
SnapshotAtomicity ==
    [][/\ (last'.op = "get_snapshot" =>
                /\ last'.ret = Snapshot(models', enriched')
                /\ (upd # <<>> => last'.ret \in {upd[1].before, upd[1].after}))
       /\ (upd # <<>> /\ upd' = <<>> =>
                Snapshot(models', enriched') = upd[1].after)
       /\ (upd = <<>> /\ upd' # <<>> =>
                Snapshot(models, enriched) = upd'[1].before)]_vars

\* a get_snapshot that was called while update_models was suspended has
\* waited for the lock and returned the two models of the finished update
SnapshotWaitedWitness ==
    /\ last.op = "get_snapshot"
    /\ last.waited
    /\ Len(last.ret) = 2

(***************************************************************************)
(* C13  SORT-STABILITY                                                     *)
(***************************************************************************)
\* the key the entries are to be ordered by: (base_url, lowercased id)
UrlAndLowerId(entry) ==
    <<CodePoints(entry.llm_aggregator.obj.base_url.str),
      LowerCase(CodePoints(entry.id.str))>>

\* a <= b for two such keys
NotAfter(a, b) ==
    \/ StrLess(a[1], b[1])
    \/ a[1] = b[1] /\ ~StrLess(b[2], a[2])

\* list r holds the elements of list l, each as often as l does
SameElements(r, l) ==
    /\ Len(r) = Len(l)
    /\ \A i \in 1..Len(l) :
            Cardinality({j \in 1..Len(r) : r[j] = l[i]})
                = Cardinality({j \in 1..Len(l) : l[j] = l[i]})

\* C13: get_snapshot returns the entries of the stored models in ascending
\* order of (base_url, lowercased id), and a get_snapshot that directly
\* follows a get_snapshot returns the same list.
SortStability ==
    [][last'.op = "get_snapshot" =>
            /\ SameElements(last'.ret, SnapshotEntries(models, enriched))
            /\ \A i \in 1..(Len(last'.ret) - 1) :
                    NotAfter(UrlAndLowerId(last'.ret[i]),
                             UrlAndLowerId(last'.ret[i + 1]))
            /\ (last.op = "get_snapshot" => last'.ret = last.ret)]_vars

\* get_snapshot has returned three entries of one provider in another order
\* than the store holds them: alpha before Beta, and Beta and beta, which
\* differ in case alone, side by side
SortStabilityWitness ==
    /\ last.op = "get_snapshot"
    /\ Len(last.ret) = 3
    /\ last.ret # SnapshotEntries(models, enriched)
    /\ last.ret[1].id = Str("alpha")
    /\ {last.ret[2].id, last.ret[3].id} = {Str("Beta"), Str("beta")}

(***************************************************************************)
(* C14  SNAPSHOT-PURITY: no internal address                               *)
(***************************************************************************)
\* dict d has the field k, at its top or in a nested dict
RECURSIVE HasKey(_, _)
HasKey(d, k) ==
    \/ k \in DOMAIN d
    \/ \E f \in DOMAIN d : IsObj(d[f]) /\ HasKey(d[f].obj, k)

\* C14: no entry returned by get_snapshot has a field internal_base_url at
\* any level, whatever upstream entries update_models stored and whatever
\* enrichment results apply_enrichment stored.
SnapshotPurity ==
    [][last'.op = "get_snapshot" =>
            \A i \in 1..Len(last'.ret) :
                ~HasKey(last'.ret[i], "internal_base_url")]_vars

(***************************************************************************)
(* C15  Public base_url                                                    *)
(***************************************************************************)
\* entry e is the entry of model m and carries its provider's base_url
PublicEntryOf(e, m) ==
    /\ e.id = Str(m.key.id)
    /\ "base_url" \in DOMAIN e.llm_aggregator.obj
    /\ e.llm_aggregator.obj.base_url = Str(m.key.provider.base_url)

\* C15: get_snapshot returns one entry per stored model, and the base_url in
\* the metadata of each entry is the base_url of the provider of its model,
\* with and without stored enrichment.
PublicBaseUrl ==
    [][last'.op = "get_snapshot" =>
            /\ Len(last'.ret) = Len(models)
            /\ \A i \in 1..Len(models) :
                    \E j \in 1..Len(last'.ret) :
                        PublicEntryOf(last'.ret[j], models[i])
            /\ \A j \in 1..Len(last'.ret) :
                    \E i \in 1..Len(models) :
                        PublicEntryOf(last'.ret[j], models[i])]_vars

\* get_snapshot has returned the entries of models of two providers, one
\* with enrichment merged into its metadata and one without
PublicBaseUrlWitness ==
    /\ last.op = "get_snapshot"
    /\ \E i, j \in 1..Len(last.ret) :
            /\ "summary" \in DOMAIN last.ret[i].llm_aggregator.obj
            /\ DOMAIN last.ret[j].llm_aggregator.obj = {"base_url"}
            /\ last.ret[i].llm_aggregator.obj.base_url
                    # last.ret[j].llm_aggregator.obj.base_url

(***************************************************************************)
(* C16  no popped model is lost                                            *)
(***************************************************************************)
\* task t's call of the enricher ends in this step, by a return or by an
\* exception
EnricherCallEnds(t) ==
    /\ tasks[t].kind = "enrich"
    /\ tasks[t].pc = "enrich"
    /\ ~tasks[t].cancel
    /\ tasks'[t].pc \in {"ready", "backoff"}

\* C16: when the enricher call for a batch ends, every model of the batch
\* that the store still holds has stored enrichment or is back in the queue
NoPoppedModelLost ==
    [][\A t \in TaskIds :
            EnricherCallEnds(t) =>
                \A i \in 1..Len(tasks[t].batch) :
                    LET k == tasks[t].batch[i].key
                    IN  k \in KeysOf(models') =>
                            \/ k \in DOMAIN enriched'
                            \/ \E j \in 1..Len(queue') : queue'[j].key = k]_vars

(***************************************************************************)
(* C17  the enricher raises                                                *)
(***************************************************************************)
\* C17: when the enricher call of a loop ends otherwise than by a return,
\* the step is requeue_models of the whole batch, after which every batch
\* model the store holds is queued; the loop has not ended and has taken no
\* new batch: it is in the idle sleep
EnricherFailureRequeues ==
    [][\A t \in TaskIds :
            EnricherCallEnds(t) /\ tasks'[t].pc # "ready" =>
                /\ RequeueModels(tasks[t].batch)
                /\ \A i \in 1..Len(tasks[t].batch) :
                        LET k == tasks[t].batch[i].key
                        IN  k \in KeysOf(models) =>
                                /\ k \in queued_keys'
                                /\ \E j \in 1..Len(queue') : queue'[j].key = k
                /\ tasks'[t].pc = "backoff"
                /\ tasks'[t].batch = <<>>]_vars

\* a loop is in the idle sleep after its enricher call failed, and the batch
\* it held is queued again
EnricherFailureWitness ==
    \E t \in TaskIds :
        /\ tasks[t].pc = "backoff"
        /\ last.op = "requeue_models"
        /\ last.enq = 2
        /\ Len(queue) = 2

(***************************************************************************)
(* C18  brain single-flight                                                *)
(***************************************************************************)
\* the loops whose enricher call is under way; a call whose task has been
\* cancelled is counted as over
BrainCallsInFlight ==
    {t \in TaskIds : tasks[t].pc = "enrich" /\ ~tasks[t].cancel}

\* C18: in every reachable state at most one brain call is in flight
BrainSingleFlight == Cardinality(BrainCallsInFlight) <= 1

(***************************************************************************)
(* C19  stop()                                                             *)
(***************************************************************************)
\* what a loop does: a provider fetch, or a store call; a brain call starts
\* in the step of the get_enrichment_batch that hands it a batch
LoopOps ==
    {"gather_models", "update_models", "get_enrichment_batch",
     "apply_enrichment", "requeue_models"}

\* C19: once stop() has returned, and until start() is called again, no loop
\* fetches from the providers, calls the brain or calls the store
QuietAfterStop == [][stopped /\ stopped' => last'.op \notin LoopOps]_vars

(***************************************************************************)
(* C20  start and stop are idempotent                                      *)
(***************************************************************************)
\* C20: stop() with no loops running changes nothing, and start() with the
\* loops running creates no task (and changes nothing else)
IdempotentStartStop ==
    [][/\ last'.op = "stop" /\ refresh_task = 0 /\ enrich_task = 0 =>
            /\ UNCHANGED taskvars
            /\ UNCHANGED <<models, enriched, queue, queued_keys,
                           last_update_ts, handouts>>
       /\ last'.op = "start" /\ (refresh_task # 0 \/ enrich_task # 0) =>
            /\ tasks' = tasks
            /\ UNCHANGED taskvars
            /\ UNCHANGED <<models, enriched, queue, queued_keys,
                           last_update_ts, handouts>>]_vars

\* start() has just returned, and the loops it found running are still the
\* only ones
IdempotentStartWitness ==
    /\ last.op = "start"
    /\ Len(tasks) = 2
    /\ refresh_task = 1
    /\ enrich_task = 2
    /\ tasks[1].pc = "sleep"
    /\ tasks[2].pc = "enrich"

(***************************************************************************)
(* C21  restart()                                                          *)
(***************************************************************************)
\* the loops of a kind among the tasks ts that have not ended
LiveLoops(ts, kind) ==
    {t \in DOMAIN ts : ts[t].kind = kind /\ ts[t].pc # "done"}

\* C21: when restart() returns the store is empty with last_update_ts = 0
\* and the manager holds two tasks it has just created; and once the tasks
\* restart() cancelled have taken their cancellation, exactly one refresh
\* loop and one enrichment loop are running
RestartReplacesLoops ==
    [][/\ last'.op = "clear" =>
            /\ models' = <<>>
            /\ DOMAIN enriched' = {}
            /\ queue' = <<>>
            /\ queued_keys' = {}
            /\ last_update_ts' = 0
            /\ refresh_task' = Len(tasks) + 1
            /\ enrich_task' = Len(tasks) + 2
            /\ tasks'[refresh_task'] = NewRefreshTask
            /\ tasks'[enrich_task'] = NewEnrichTask
            /\ tasks'[refresh_task].cancel
            /\ tasks'[enrich_task].cancel
       /\ ~CancelsDelivered /\ ~stopping /\ ~stopping' /\
          (\A t \in DOMAIN tasks' : ~tasks'[t].cancel) =>
            /\ Cardinality(LiveLoops(tasks', "refresh")) = 1
            /\ Cardinality(LiveLoops(tasks', "enrich")) = 1]_vars

(***************************************************************************)
(* C22  refresh failures are local                                         *)
(***************************************************************************)
\* C22: a refresh cycle that ends in an exception does not end the loop
\* unless stop is signalled: the loop is in its sleep, and a loop that wakes
\* from its sleep with no stop signalled starts another cycle
RefreshFailureLocal ==
    [][\A t \in TaskIds :
            /\ (tasks[t].pc = "gather" /\ tasks'[t].pc # "gather"
                /\ last'.op = "refresh_loop error") =>
                    tasks'[t].pc = IF stopping THEN "done" ELSE "sleep"
            /\ (tasks[t].kind = "refresh" /\ tasks[t].pc = "sleep"
                /\ ~tasks[t].cancel /\ ~stopping
                /\ tasks'[t].pc # "sleep") =>
                    /\ tasks'[t].pc = "gather"
                    /\ last'.op = "gather_models"]_vars

\* a refresh cycle has just failed after an earlier one filled the store, and
\* the loop is in its sleep
RefreshFailureWitness ==
    \E t \in TaskIds :
        /\ tasks[t].kind = "refresh"
        /\ tasks[t].pc = "sleep"
        /\ last.op = "refresh_loop error"
        /\ Len(models) = 2

(***************************************************************************)
(* C23  provider failure isolation                                         *)
(***************************************************************************)
\* the models of the providers whose fetch did not raise, provider by
\* provider
LiveModels(results) ==
    (IF results[1].raised THEN <<>> ELSE results[1].models)
        \o (IF results[2].raised THEN <<>> ELSE results[2].models)

\* C23: gather_models returns the models of every provider whose fetch did
\* not raise, each as often as the fetches returned it, whatever the other
\* fetch did; and the update of an empty store with that list stores the
\* keys of the live providers only, each of them queued once
ProviderFailureIsolated ==
    [][/\ (last.op = "fetches" /\ last'.op = "gather_models returns") =>
            SameElements(last'.ret, LiveModels(last.arg.results))
       /\ (last.op = "gather_models returns" /\ last'.op = "update_models"
           /\ models = <<>> /\ queue = <<>>) =>
            LET live == LiveModels(last.arg.results)
            IN  /\ KeysOf(models') = KeysOf(live)
                /\ queued_keys' = KeysOf(live)
                /\ \A k \in KeysOf(live) :
                        Cardinality({i \in 1..Len(queue') :
                                        queue'[i].key = k}) = 1
                /\ \A i \in 1..Len(queue') : queue'[i].key \in KeysOf(live)]_vars

\* gather_models has returned the models of the one provider that answered
\* while the fetch of the other raised
ProviderFailureWitness ==
    /\ last.op = "gather_models returns"
    /\ \E i \in 1..2 :
            /\ last.arg.results[i].raised
            /\ ~last.arg.results[3 - i].raised
            /\ last.arg.results[3 - i].models # <<>>
            /\ last.ret = last.arg.results[3 - i].models

(***************************************************************************)
(* C24  a provider outage removes its models                               *)
(***************************************************************************)
\* C24: the update that follows a gather in which a provider's fetch raised
\* or came back empty leaves none of that provider's keys in models,
\* queued_keys or enriched; and every key the gather returned that the store
\* did not hold is stored, in queued_keys and on the queue, without
\* enrichment
OutageRemovesModels ==
    [][(last.op = "gather_models returns" /\ last'.op = "update_models") =>
            /\ \A i \in 1..2 :
                    (\/ last.arg.results[i].raised
                     \/ last.arg.results[i].models = <<>>) =>
                        \A k \in Keys :
                            k.provider = last.arg.items[i].provider =>
                                /\ k \notin KeysOf(models')
                                /\ k \notin queued_keys'
                                /\ k \notin DOMAIN enriched'
            /\ \A k \in KeysOf(last.ret) \ KeysOf(models) :
                    /\ k \in KeysOf(models')
                    /\ k \in queued_keys'
                    /\ \E j \in 1..Len(queue') : queue'[j].key = k
                    /\ k \notin DOMAIN enriched']_vars

\* an update has just removed the model of one provider and enqueued the
\* model of the other, which had left the store while it was queued and is
\* back
OutageWitness ==
    /\ last.op = "update_models"
    /\ last.removed # {}
    /\ last.enq = 1
    /\ \E k \in KeysOf(models) \cap queued_keys :
            Cardinality({j \in 1..Len(queue) : queue[j].key = k}) = 2

(***************************************************************************)
(* C25  order of the gathered list                                         *)
(***************************************************************************)
\* (base_url, lowercased id) of a gathered model
UrlAndLowerIdOfModel(m) ==
    <<CodePoints(m.key.provider.base_url), LowerCase(CodePoints(m.key.id))>>

FetchFailed(response) ==
    \/ response.kind \in {"connect_error", "timeout"}
    \/ response.kind = "http" /\ response.status >= 400
    \/ response.kind = "http" /\ response.json = <<>>

\* C26: _fetch_models_for_provider raises nothing to its caller, and for a
\* connection failure, a timeout, an HTTP status of 400 or more and a body
\* that is not JSON it returns the empty list
FetchNeverRaises ==
    [][last'.op = "_fetch_models_for_provider" =>
            /\ ~last'.raised
            /\ FetchFailed(last.arg[3]) => last'.ret = <<>>]_vars

\* the fetch has returned the empty list for a response with status 503
\* whose body lists a model
FetchNeverRaisesWitness ==
    /\ last.op = "_fetch_models_for_provider"
    /\ last.arg[3].kind = "http"
    /\ last.arg[3].status = 503
    /\ last.arg[3].json = <<Obj([data |-> List(<<Obj([id |-> Str("alpha")])>>)])>>
    /\ last.ret = <<>>
    /\ ~last.raised

(***************************************************************************)
(* C27  payload shapes                                                     *)
(***************************************************************************)
\* the entries of a payload: the list under data, the single object under
\* data, a bare list, and nothing for any other shape
PayloadEntries(payload) ==
    IF IsList(payload) THEN payload.list
    ELSE IF ~IsObj(payload) \/ "data" \notin DOMAIN payload.obj THEN <<>>
    ELSE IF IsList(payload.obj.data) THEN payload.obj.data.list
    ELSE IF IsObj(payload.obj.data) THEN <<payload.obj.data>>
    ELSE <<>>

HasStringId(entry) ==
    IsObj(entry) /\ "id" \in DOMAIN entry.obj /\ IsStr(entry.obj.id)

HasId(entry) ==
    IsObj(entry) /\ "id" \in DOMAIN entry.obj /\ ~IsNull(entry.obj.id)

\* C27 as stated: for a response that is read, the models returned are, in
\* order, one for each entry that is an object with a string id, and none
\* for any other entry
ModelPerStringId ==
    [][(last'.op = "_fetch_models_for_provider"
        /\ ~FetchFailed(last.arg[3])) =>
            LET made == SelectSeq(PayloadEntries(last.arg[3].json[1]),
                                  HasStringId)
            IN  /\ Len(last'.ret) = Len(made)
                /\ \A i \in 1..Len(made) :
                        last'.ret[i].key
                            = ModelKey(last.arg[2], made[i].obj.id.str)]_vars

\* C27 amended: for a response that is read, the models returned are, in
\* order, one for each entry that is an object with an id other than null,
\* the model's id being the entry's id as a string and its meta.base_url
\* the provider's base_url; there is none for any other entry
ModelPerEntryWithId ==
    [][(last'.op = "_fetch_models_for_provider"
        /\ ~FetchFailed(last.arg[3])) =>
            LET made == SelectSeq(PayloadEntries(last.arg[3].json[1]), HasId)
            IN  /\ Len(last'.ret) = Len(made)
                /\ \A i \in 1..Len(made) :
                        /\ last'.ret[i].key
                            = ModelKey(last.arg[2], PyStr(made[i].obj.id))
                        /\ last'.ret[i].raw.id
                            = Str(PyStr(made[i].obj.id))
                        /\ last'.ret[i].raw.meta.obj.base_url
                            = Str(last.arg[2].base_url)]_vars

\* the fetch has returned the model "5" for an entry whose id is the number
\* 5, next to an entry that is not an object
ModelPerEntryWitness ==
    /\ last.op = "_fetch_models_for_provider"
    /\ last.arg[3].kind = "http"
    /\ last.arg[3].json = <<Obj([data |-> List(<<Str("alpha"),
                                                  Obj([id |-> Num(5)])>>)])>>
    /\ Len(last.ret) = 1
    /\ last.ret[1].key.id = "5"

(***************************************************************************)
(* C28  the enrichment merge never overwrites                              *)
(***************************************************************************)
\* the model is the same but for meta, and meta keeps its keys and values
MetaKept(before, after) ==
    /\ [after EXCEPT !.raw.meta = before.raw.meta] = before
    /\ \A k \in DOMAIN MetaOf(before) :
            /\ k \in DOMAIN MetaOf(after)
            /\ MetaOf(after)[k] = MetaOf(before)[k]

\* C28 as stated: for every entry of the response that matches the model on
\* (id, base_url), every field of the entry other than id has its key in
\* meta after the merge; no key that was in meta changes its value; and
\* when no entry matches the model is unchanged
EveryMatchingEntryMerged ==
    [][last'.op = "_merge_enrichment" =>
            LET model == last.arg[1]
                enriched_list == last.arg[2]
                matching == SelectSeq(enriched_list,
                                LAMBDA item : MatchesModel(model, item))
            IN  /\ MetaKept(model, last'.ret)
                /\ \A i \in 1..Len(matching) :
                        \A k \in (DOMAIN matching[i].obj) \ {"id"} :
                            k \in DOMAIN MetaOf(last'.ret)
                /\ matching = <<>> => last'.ret = model]_vars

(***************************************************************************)
(* C29  enrich_batch partitions its input                                  *)
(***************************************************************************)
\* a Python tuple
IsTuple(v) == "tuple" \in DOMAIN v

\* a valid entry of the reply matched the model
EntryMatched(input) ==
    \E i \in 1..Len(EnrichedList(input.reply)) :
        MatchesModel(input.model, EnrichedList(input.reply)[i])

\* C29: enrich_batch returns a pair (enriched, failed); the models with a
\* matching entry in a valid reply are, in order, the models of enriched,
\* the other models of the batch are, in order, the models of failed; and
\* for the empty batch the pair is ([], [])
EnrichBatchPartitions ==
    [][last'.op = "enrich_batch" =>
            /\ IsTuple(last'.ret)
            /\ Len(last'.ret.tuple) = 2
            /\ LET matched == SelectSeq(last.arg, EntryMatched)
                   unmatched == SelectSeq(last.arg,
                                    LAMBDA input : ~EntryMatched(input))
                   keysOf(l) == [i \in 1..Len(l) |-> l[i].key]
               IN  /\ keysOf(last'.ret.tuple[1].list)
                        = [i \in 1..Len(matched) |-> matched[i].model.key]
                   /\ keysOf(last'.ret.tuple[2].list)
                        = [i \in 1..Len(unmatched) |->
                                unmatched[i].model.key]]_vars

(***************************************************************************)
(* C30  size gathering is best effort                                      *)
(***************************************************************************)
\* the script exits with code 0 and prints the non-negative integer n
PrintsSize(outcome, n) ==
    /\ outcome.kind = "exit"
    /\ outcome.returncode = 0
    /\ PyInt(outcome.stdout) = <<n>>
    /\ n >= 0

\* the calls of a batch to gather_files_size that belong to its i-th model:
\* the loop makes at most one for a model, before the model's call to the
\* brain, which is the i-th such call
SizeCallsOf(calls, i) ==
    LET brain == SelectSeq([j \in 1..Len(calls) |-> j],
                           LAMBDA j : calls[j].op = "chat_completions")
        from == IF i = 1 THEN 1 ELSE brain[i - 1] + 1
    IN  {j \in from..brain[i] : calls[j].op = "gather_files_size"}

\* C30: for every model of a batch, the gatherer is called only when the
\* model's meta has no size; the call yields n exactly when the script exits
\* with code 0 and prints the non-negative integer n, and then meta.size is
\* n; when it yields nothing (non-zero exit, output that is no integer, a
\* negative number, no script, a timeout, after which the child is killed)
\* the gatherer sets no size: the brain is still called for the model and
\* the model is returned with the meta the merge of the reply gives it
SizeBestEffort ==
    [][last'.op = "enrich_batch" =>
            /\ Len(last'.ret.list) = Len(last.arg)
            /\ Len(SelectSeq(last'.calls,
                        LAMBDA c : c.op = "chat_completions"))
                    = Len(last.arg)
            /\ \A i \in 1..Len(last.arg) :
                LET input == last.arg[i]
                    out == last'.ret.list[i]
                    size_calls == SizeCallsOf(last'.calls, i)
                IN  /\ Cardinality(size_calls) <= 1
                    /\ size_calls # {} <=>
                            "size" \notin DOMAIN MetaOf(input.model)
                    /\ \A j \in size_calls :
                        LET call == last'.calls[j]
                        IN  /\ call.model = input.model.key
                            /\ \A n \in 0..MaxSize :
                                    call.ret = <<n>> <=>
                                        PrintsSize(input.script, n)
                            /\ call.ret # <<>> =>
                                    MetaOf(out).size = Num(call.ret[1])
                            /\ input.script.kind = "timeout" => call.killed
                            /\ call.ret = <<>> =>
                                    out = MergeEnrichment(
                                            input.model,
                                            EnrichedList(input.reply))
                            /\ (call.ret = <<>> /\ ~EntryMatched(input)) =>
                                    "size" \notin DOMAIN MetaOf(out)]_vars

\* a batch has been enriched in which the script of the first model timed
\* out and the script of the second printed -5: neither has a size and
\* both carry the summary of the brain
SizeBestEffortWitness ==
    /\ last.op = "enrich_batch"
    /\ Len(last.arg) = 2
    /\ last.arg[1].script.kind = "timeout"
    /\ last.arg[2].script = [kind |-> "exit", returncode |-> 0,
                             stdout |-> <<"-", "5">>]
    /\ Len(last.calls) = 4
    /\ last.calls[1].killed
    /\ \A i \in 1..2 :
            /\ "size" \notin DOMAIN MetaOf(last.ret.list[i])
            /\ "summary" \in DOMAIN MetaOf(last.ret.list[i])

(***************************************************************************)
(* C31  the documentation cache                                            *)
(***************************************************************************)
\* the step is the call of a lookup for key: the cache has been read
LookupReads(key) ==
    /\ last'.op \in {"_get_markdown_for_source", "_CACHE.get (miss)"}
    /\ last'.arg = key
    /\ last'.calls = <<>>

\* C31: a download ends by storing its result, markdown or None, under the
\* key with the time of the clock; a lookup that finds an entry whose age is
\* at most the TTL returns the entry's value, starts no download and leaves
\* the cache as it is; a lookup that finds an entry older than the TTL, or no
\* entry, is a miss: the entry is gone and the lookup awaits a download
CacheWithinTtl ==
    [][\A key \in CacheKeys :
            /\ (last'.op = "_get_markdown_for_source" /\ last'.arg = key
                /\ last'.calls # <<>>) =>
                    /\ key \in DOMAIN cache_entries'
                    /\ cache_entries'[key]
                        = [value |-> last'.ret, stored_at |-> clock]
            /\ (LookupReads(key) /\ key \in DOMAIN cache_entries
                /\ clock - cache_entries[key].stored_at <= CacheTtl) =>
                    /\ last'.op = "_get_markdown_for_source"
                    /\ last'.ret = cache_entries[key].value
                    /\ UNCHANGED <<cache_entries, lookups>>
            /\ (LookupReads(key)
                /\ (key \in DOMAIN cache_entries =>
                        clock - cache_entries[key].stored_at > CacheTtl)) =>
                    /\ last'.op = "_CACHE.get (miss)"
                    /\ key \notin DOMAIN cache_entries'
                    /\ \E p \in LookupIds :
                            /\ lookups[p] = <<>>
                            /\ lookups'[p] = <<key>>]_vars

\* a lookup has just returned the None that a download stored a full TTL
\* before, without a download
CacheWitness ==
    /\ last.op = "_get_markdown_for_source"
    /\ last.calls = <<>>
    /\ last.ret = Null
    /\ last.arg \in DOMAIN cache_entries
    /\ cache_entries[last.arg].value = Null
    /\ clock = cache_entries[last.arg].stored_at + CacheTtl

BrainCallsSequential ==
    [][last'.op = "enrich_batch" =>
            LET brain == SelectSeq(last'.calls,
                            LAMBDA c : c.op = "chat_completions")
            IN  /\ Len(brain) = Len(last.arg)
                /\ \A i \in 1..Len(brain) :
                        /\ brain[i].model = last.arg[i].model.key
                        /\ brain[i].began < brain[i].ended
                        /\ i > 1 => brain[i - 1].ended < brain[i].began]_vars

\* a batch of two models of different providers has been enriched with two
\* brain calls
BrainCallsWitness ==
    /\ last.op = "enrich_batch"
    /\ Len(last.arg) = 2
    /\ last.arg[1].model.key # last.arg[2].model.key
    /\ Len(SelectSeq(last.calls, LAMBDA c : c.op = "chat_completions")) = 2

(***************************************************************************)
(* C34  queued keys are stored keys                                        *)
(***************************************************************************)
\* C34: every key in queued_keys is the key of a stored model
QueuedKeysStored == queued_keys \subseteq KeysOf(models)

\* an update has just removed a model and a key is still marked as queued
QueuedKeysWitness ==
    /\ last.op = "update_models"
    /\ last.removed # {}
    /\ queued_keys # {}

(***************************************************************************)
(* C35  enrichment is stored for stored keys only                          *)
(***************************************************************************)
\* C35: every key with stored enrichment is the key of a stored model
EnrichedKeysStored == DOMAIN enriched \subseteq KeysOf(models)

\* an update has just removed a model while the enrichment of another
\* model stays stored
EnrichedKeysWitness ==
    /\ last.op = "update_models"
    /\ last.removed # {}
    /\ DOMAIN enriched # {}

DuplicateKeysLastWins ==
    [][last'.op = "update_models" =>
            \A k \in KeysOf(last'.arg) :
                LET at == {i \in 1..Len(last'.arg) : last'.arg[i].key = k}
                    final == CHOOSE i \in at : \A j \in at : j <= i
                IN  /\ CountKey(models', k) = 1
                    /\ DictGet(models', k) = last'.arg[final]
                    /\ CountKey(queue', k) - CountKey(queue, k) <= 1]_vars

\* an update has just been given two different models with one key, new to
\* the store: the second is stored and one element is queued
DuplicateKeysWitness ==
    /\ last.op = "update_models"
    /\ Len(last.arg) = 2
    /\ last.arg[1].key = last.arg[2].key
    /\ last.arg[1] # last.arg[2]
    /\ models = <<last.arg[2]>>
    /\ last.enq = 1

(***************************************************************************)
(* C37  enrichment does not cross lifetimes                                *)
(***************************************************************************)
\* task t's call of the enricher returns in this step and the loop calls
\* apply_enrichment with the result
EnricherResultApplied(t) ==
    /\ EnricherCallEnds(t)
    /\ last'.op = "apply_enrichment"

\* C37: when a loop stores the result for a model of its batch, the key has
\* been handed out since it was last inserted: a result for a model handed
\* out before the key was removed and inserted again is not stored
NoCrossLifetimeEnrichment ==
    [][\A t \in TaskIds :
            EnricherResultApplied(t) =>
                \A k \in KeysOf(tasks[t].batch) :
                    k \in DOMAIN enriched' /\ k \notin DOMAIN enriched =>
                        handouts[k] >= 1]_vars

(***************************************************************************)
(* C40  cancelled loops stay cancelled                                     *)
(***************************************************************************)
\* the loops restart() has cancelled and replaced: the manager no longer
\* holds them and stop() is not waiting for them
Superseded(t) ==
    /\ t \notin {refresh_task, enrich_task}
    /\ \A i \in 1..Len(stop_waits) : stop_waits[i] # t
    /\ tasks[t].pc # "done"

\* C40: a loop that restart() cancelled takes its CancelledError and ends;
\* it starts no provider fetch, brain call or store operation after
\* restart() has returned
CancelledLoopsStayCancelled ==
    [][\A t \in TaskIds :
            Superseded(t) /\ tasks'[t] # tasks[t] =>
                /\ last'.op \notin LoopOps
                /\ tasks[t].cancel \/ tasks'[t].pc = "done"]_vars

(***************************************************************************)
(* C38  eventual enrichment                                                *)
(*                                                                         *)
(* The two loops started once and left running: no stop(), no restart(),   *)
(* no clear().  The event loop runs every task that is ready, every sleep  *)
(* ends, gather_models and enrich_batch end; and a loop whose enricher     *)
(* calls keep coming gets, again and again, a call that returns an item    *)
(* for every model of the batch.                                           *)
(***************************************************************************)
\* the enricher call of task t returns with a result for every model of the
\* batch
EnricherSucceeded(t) ==
    \E answer \in BrainAnswers :
        /\ KeysOf(MapEnrichResult(KeysOf(tasks[t].batch), answer))
                = KeysOf(tasks[t].batch)
        /\ EnricherReturned(t, answer)

RefreshStep ==
    \E t \in TaskIds :
        \/ RefreshWake(t)
        \/ \E ms \in GatherResults : RefreshFetched(t, ms)
        \/ RefreshFailed(t)

EnrichStep ==
    \E t \in TaskIds :
        \/ EnrichHead(t)
        \/ \E answer \in BrainAnswers : EnricherReturned(t, answer)
        \/ EnricherRaised(t)

NextLoops ==
    \/ Start /\ UNCHANGED <<lockvars, cachevars>>
    \/ \E t \in TaskIds : RefreshWake(t) /\ UNCHANGED <<lockvars, cachevars>>
    \/ \E t \in TaskIds, ms \in GatherResults :
            RefreshFetched(t, ms) /\ UNCHANGED <<lockvars, cachevars>>
    \/ \E t \in TaskIds : RefreshFailed(t) /\ UNCHANGED <<lockvars, cachevars>>
    \/ \E t \in TaskIds : EnrichHead(t) /\ UNCHANGED <<lockvars, cachevars>>
    \/ \E t \in TaskIds, answer \in BrainAnswers :
            EnricherReturned(t, answer) /\ UNCHANGED <<lockvars, cachevars>>
    \/ \E t \in TaskIds : EnricherRaised(t) /\ UNCHANGED <<lockvars, cachevars>>

SpecLoopsFair ==
    /\ InitTasks
    /\ [][NextLoops]_vars
    /\ WF_vars(Start /\ UNCHANGED <<lockvars, cachevars>>)
    /\ WF_vars(RefreshStep /\ UNCHANGED <<lockvars, cachevars>>)
    /\ WF_vars(EnrichStep /\ UNCHANGED <<lockvars, cachevars>>)
    /\ SF_vars((\E t \in TaskIds : EnricherSucceeded(t))
                    /\ UNCHANGED <<lockvars, cachevars>>)

\* the store holds a model for key k that has no enrichment, is not marked
\* as queued, and is in no batch an enrichment loop holds
Stranded(k) ==
    /\ k \in KeysOf(models)
    /\ k \notin DOMAIN enriched
    /\ k \notin queued_keys
    /\ \A t \in TaskIds : k \notin KeysOf(tasks[t].batch)

\* C38: a model that stays in the store from some point on has its
\* enrichment stored at some time, and no model stays forever in the store
\* without enrichment, out of the queue and out of every batch
EventualEnrichment ==
    \A k \in Keys :
        /\ <>[](k \in KeysOf(models)) => <>(k \in DOMAIN enriched)
        /\ ~<>[]Stranded(k)

====
